---- MODULE Spec2Model ----
(***************************************************************************)
(* A model of the braille translator (braille_translator/translator.py,    *)
(* translator_v2.py and translator_v5.py).                                 *)
(*                                                                         *)
(* A Python str is a sequence of code points (naturals).  A braille cell    *)
(* is the code point 0x2800 + value.  A function that can raise returns    *)
(* the record [err |-> TRUE, val |-> <<>>] when it raises, and             *)
(* [err |-> FALSE, val |-> result] when it returns.                        *)
(***************************************************************************)
EXTENDS Integers, Sequences, FiniteSets, TLC

VARIABLES
    codec_pc,    \* "cells" | "rawbits" | "rawdots" | "encoded" | "decoded" | "off"
    codec_in,    \* the str handed to unicode_to_binary / unicode_to_dots
    codec_kind,  \* "binary" | "dots" | "none": the text format in codec_txt
    codec_enc,   \* the version whose encoder produced codec_txt, or "none"
    codec_txt,   \* the bit str or point-number str
    codec_dec,   \* the version whose decoder produced codec_out, or "none"
    codec_out,   \* the decoder's result
    seg_pc,      \* "text" | "done" | "off"
    seg_text,    \* the str handed to a segmenter
    seg_fn,      \* the segmenter that ran: "v1" | "v2" | "v5", or "none"
    seg_runs,    \* its result: a sequence of [lang, text]
    tr_pc,       \* BrailleTranslator (V1): "new" | "encoded" | "decoded" | "off"
    lou,         \* how the lou_translate executable behaves (the environment)
    g2_contractions,   \* self.g2_contractions
    g2_reverse_map,    \* self.g2_reverse_map
    tr_text,     \* the text handed to text_to_braille
    tr_braille,  \* what text_to_braille returned (fmt = "unicode")
    tr_restored, \* what braille_to_text returned
    lou_hangs,   \* TRUE when the lou_translate process never exits
    tr_log,      \* per run of text_to_braille: [lang, text, calls, brl]
    tr_failures, \* the translation failures text_to_braille reported to its caller
    img_pc,      \* the image operations: "new" | "drawn" | "read" | "off"
    img_lines,   \* the lines text_to_braille_image laid out
    img,         \* the image: [h, w, discs], discs the centres of the filled circles
    img_cells,   \* what image_to_binary returned
    v2_pc,       \* BrailleTranslatorV2's image operations: "new" | "drawn" | "read" | "off"
    louis,       \* how louis.translate behaves for each table of table_list
    v2_text,     \* the text handed to text_to_braille_image
    v2_cols,     \* its cols_per_line argument
    v2_img,      \* the image it returned
    v2_out,      \* what image_to_braille returned
    det_pc,      \* InputFormatDetector: "cells" | "data" | "detected" | "off"
    det_in,      \* a sequence of six-dot cells
    det_kind,    \* the representation of det_in handed to detect_input_type
    det_data,    \* that representation
    det_type,    \* what detect_input_type returned, or "none"
    st_pc,       \* SuperBrailleTranslator: "idle" | "reported" | "off"
    HAS_IMAGE_SUPPORT,     \* whether cv2 and numpy could be imported
    translation_history,   \* self.translation_history
    st_results,  \* every result unified_translate returned to its caller, in call order
    st_stats,    \* the dict get_statistics returned last
    ld_pc, \* LanguageDetector.detect_language: "text" | "done" | "off"
    ld_text, \* the text handed to detect_language
    ld_lang,\* the value of the LanguageType it returned, or "none"
    fmt_pc, \* text_to_braille with a fmt argument: "new" | "encoded" | "decoded" | "off"
    fmt_ver, \* the translator called: "v1" | "v2", or "none"
    fmt_text, \* the text handed to text_to_braille
    fmt_req, \* its fmt argument, or "none"
    fmt_out, \* what the call returned
    fmt_back,\* what binary_to_unicode made of the returned bit str
    fr_pc, \* calls on one BrailleTranslator in any order: "ready" | "off"
    fr_calls, \* the methods called so far, in order
    fr_braille, \* the braille str the last text_to_braille or image_to_braille returned
    fr_img, \* the image the last text_to_braille_image returned
    fr_cells, \* what the last image_to_binary returned
    fr_text,\* the text the last braille_to_text or image_to_text returned
    dec_pc, \* the while loop of braille_to_text over one segment: "loop" | "done" | "off"
    dec_lang, \* lang of the segment
    dec_segment, \* the cells of the segment
    dec_cursors, \* the values of cursor at the loop test, the first one included
    dec_buffer,\* buffer
    pic_pc, \* SuperBrailleTranslator image methods: "new" | "drawn" | "read" | "off"
    image_settings, \* self.image_settings
    pic_braille, \* the braille str handed to _generate_braille_image
    pic_ink, \* whether the caption leaves ink on every pixel it may cover
    pic_img, \* the image written to the file
    pic_scan, \* the cell positions _extract_braille_from_image scanned, row by row
    pic_out \* the str _extract_braille_from_image returned

codecVars == <<codec_pc, codec_in, codec_kind, codec_enc, codec_txt, codec_dec, codec_out>>

segVars == <<seg_pc, seg_text, seg_fn, seg_runs>>

trVars == <<tr_pc, lou, g2_contractions, g2_reverse_map, tr_text, tr_braille, tr_restored,
           lou_hangs, tr_log, tr_failures>>

imgVars == <<img_pc, img_lines, img, img_cells>>

v2Vars == <<v2_pc, louis, v2_text, v2_cols, v2_img, v2_out>>

detVars == <<det_pc, det_in, det_kind, det_data, det_type>>

statsVars == <<st_pc, HAS_IMAGE_SUPPORT, translation_history, st_results, st_stats>>

langVars == <<ld_pc, ld_text, ld_lang>>

fmtVars == <<fmt_pc, fmt_ver, fmt_text, fmt_req, fmt_out, fmt_back>>

callsVars == <<fr_pc, fr_calls, fr_braille, fr_img, fr_cells, fr_text>>

decVars == <<dec_pc, dec_lang, dec_segment, dec_cursors, dec_buffer>>

picVars == <<pic_pc, image_settings, pic_braille, pic_ink, pic_img, pic_scan, pic_out>>

vars == <<codecVars, segVars, trVars, imgVars, v2Vars, detVars, statsVars, langVars, fmtVars, callsVars, decVars, picVars>>

\* what the operations of one component leave alone
exceptCodec == <<segVars, trVars, imgVars, v2Vars, detVars, statsVars, langVars, fmtVars, callsVars, decVars, picVars>>
exceptSeg == <<codecVars, trVars, imgVars, v2Vars, detVars, statsVars, langVars, fmtVars, callsVars, decVars, picVars>>
exceptTr == <<codecVars, segVars, imgVars, v2Vars, detVars, statsVars, langVars, fmtVars, callsVars, decVars, picVars>>
exceptImg == <<codecVars, segVars, trVars, v2Vars, detVars, statsVars, langVars, fmtVars, callsVars, decVars, picVars>>
exceptV2 == <<codecVars, segVars, trVars, imgVars, detVars, statsVars, langVars, fmtVars, callsVars, decVars, picVars>>
exceptDet == <<codecVars, segVars, trVars, imgVars, v2Vars, statsVars, langVars, fmtVars, callsVars, decVars, picVars>>
exceptStats == <<codecVars, segVars, trVars, imgVars, v2Vars, detVars, langVars, fmtVars, callsVars, decVars, picVars>>
exceptLang == <<codecVars, segVars, trVars, imgVars, v2Vars, detVars, statsVars, fmtVars, callsVars, decVars, picVars>>
exceptFmt == <<codecVars, segVars, trVars, imgVars, v2Vars, detVars, statsVars, langVars, callsVars, decVars, picVars>>
exceptCalls == <<codecVars, segVars, trVars, imgVars, v2Vars, detVars, statsVars, langVars, fmtVars, decVars, picVars>>
exceptDec == <<codecVars, segVars, trVars, imgVars, v2Vars, detVars, statsVars, langVars, fmtVars, callsVars, picVars>>
exceptPic == <<codecVars, segVars, trVars, imgVars, v2Vars, detVars, statsVars, langVars, fmtVars, callsVars, decVars>>

(***************************************************************************)
(* Bounds of the model.                                                    *)
(***************************************************************************)
MaxCells == 2      \* longest cell sequence handed to the encoders
MaxMixed == 2      \* longest str mixing cells with other characters
MaxBits == 7       \* longest raw bit str handed to binary_to_unicode
MaxDots == 4       \* longest raw point-number str handed to dots_to_unicode
MaxText == 4       \* longest text handed to a segmenter
MaxTrText == 3     \* longest text handed to BrailleTranslator.text_to_braille
MaxLiveText == 1   \* the same, where the lou_translate process may never exit
MaxV2Text == 3     \* longest text handed to BrailleTranslatorV2.text_to_braille_image
MaxCalls == 3      \* most unified_translate calls made on one SuperBrailleTranslator
MaxFmtText == 2    \* longest text handed to text_to_braille with a fmt argument
MaxFrameCalls == 3 \* most method calls made on one BrailleTranslator
MaxSegment == 4    \* longest segment handed to the decode loop of braille_to_text
MaxPicCells == 3   \* longest braille str handed to _generate_braille_image

(***************************************************************************)
(* Characters.                                                             *)
(***************************************************************************)
BRAILLE_BASE == 10240      \* 0x2800
BRAILLE_LAST == 10495      \* 0x28FF
CH_TAB == 9
CH_NEWLINE == 10
CH_SPACE == 32
CH_HYPHEN == 45
CH_ZERO == 48

Digit(d) == CH_ZERO + d
Cell(v) == BRAILLE_BASE + v
SixDotCells == {Cell(v) : v \in 0..63}

IsBraille(c) == BRAILLE_BASE <= c /\ c <= BRAILLE_LAST      \* '⠀' <= c <= '⣿'
IsAsciiDigit(c) == CH_ZERO <= c /\ c <= CH_ZERO + 9
\* str.isspace(), on the characters of the model
IsSpace(c) == c \in {CH_TAB, CH_NEWLINE, 11, 12, 13, CH_SPACE}

SeqsUpTo(S, n) == UNION {[1..k -> S] : k \in 0..n}

Pow2(n) == IF n = 0 THEN 1 ELSE IF n = 1 THEN 2 ELSE IF n = 2 THEN 4
           ELSE IF n = 3 THEN 8 ELSE IF n = 4 THEN 16 ELSE IF n = 5 THEN 32
           ELSE IF n = 6 THEN 64 ELSE 128
\* value & (1 << i)
BitSet(value, i) == (value \div Pow2(i)) % 2 = 1

RECURSIVE Concat(_)
Concat(ss) == IF ss = <<>> THEN <<>> ELSE Head(ss) \o Concat(Tail(ss))

\* sep.join(parts)
RECURSIVE Join(_, _)
Join(sep, parts) ==
    IF parts = <<>> THEN <<>>
    ELSE IF Len(parts) = 1 THEN parts[1]
    ELSE parts[1] \o sep \o Join(sep, Tail(parts))

\* s.split(sep) for a one-character separator: empty pieces are kept
RECURSIVE SplitOn(_, _)
SplitOn(s, sep) ==
    IF s = <<>> THEN << <<>> >>
    ELSE LET rest == SplitOn(Tail(s), sep)
         IN  IF Head(s) = sep THEN << <<>> >> \o rest
             ELSE << <<Head(s)>> \o Head(rest) >> \o Tail(rest)

\* the pieces of s between whitespace characters, empty pieces kept
RECURSIVE SplitSpace(_)
SplitSpace(s) ==
    IF s = <<>> THEN << <<>> >>
    ELSE LET rest == SplitSpace(Tail(s))
         IN  IF IsSpace(Head(s)) THEN << <<>> >> \o rest
             ELSE << <<Head(s)>> \o Head(rest) >> \o Tail(rest)

NonEmpty(t) == t # <<>>
\* s.split(): runs of whitespace separate, no empty piece
str_split(s) == SelectSeq(SplitSpace(s), NonEmpty)

\* s.replace(' ', '').replace('\n', '').replace('\t', '')
KeptByClean(c) == c \notin {CH_SPACE, CH_NEWLINE, CH_TAB}
str_clean(s) == SelectSeq(s, KeptByClean)

\* str.isdigit(): non-empty, every character a digit
str_isdigit(s) == s # <<>> /\ \A i \in 1..Len(s) : IsAsciiDigit(s[i])

\* int(s) of a str of decimal digits
RECURSIVE ParseInt10(_)
ParseInt10(s) ==
    IF s = <<>> THEN 0 ELSE 10 * ParseInt10(SubSeq(s, 1, Len(s) - 1)) + (s[Len(s)] - CH_ZERO)

\* int(s, 2) of a str of '0' and '1', most significant bit first
RECURSIVE ParseInt2(_)
ParseInt2(s) ==
    IF s = <<>> THEN 0 ELSE 2 * ParseInt2(SubSeq(s, 1, Len(s) - 1)) + (s[Len(s)] - CH_ZERO)

\* the binary digits of v, most significant first: format(v, "b")
RECURSIVE BinDigits(_)
BinDigits(v) == IF v < 2 THEN <<Digit(v)>> ELSE BinDigits(v \div 2) \o <<Digit(v % 2)>>

\* [ '0' ] * n
RECURSIVE Zeros(_)
Zeros(n) == IF n <= 0 THEN <<>> ELSE <<CH_ZERO>> \o Zeros(n - 1)

Format06bLsbFirst(v) == [i \in 1..6 |-> Digit((v \div Pow2(i - 1)) % 2)]

\* f"{v:06b}": binary digits, zero-padded on the left to width 6
Format06b(v) == LET d == BinDigits(v) IN Zeros(6 - Len(d)) \o d

Ok(v) == [err |-> FALSE, val |-> v]
Raised == [err |-> TRUE, val |-> <<>>]

(***************************************************************************)
(* CellCodec                                                               *)
(***************************************************************************)
\* translator.py: unicode_to_binary
RECURSIVE unicode_to_binary_v1(_)
unicode_to_binary_v1(s) ==
    IF s = <<>> THEN <<>>
    ELSE (IF IsBraille(Head(s)) THEN Format06b(Head(s) - BRAILLE_BASE) ELSE Zeros(6))
         \o unicode_to_binary_v1(Tail(s))

\* translator_v2.py: unicode_to_binary
RECURSIVE unicode_to_binary_v2(_)
unicode_to_binary_v2(s) ==
    IF s = <<>> THEN <<>>
    ELSE (IF IsBraille(Head(s)) THEN Format06b(Head(s) - BRAILLE_BASE) ELSE Zeros(6))
         \o unicode_to_binary_v2(Tail(s))

\* translator_v5.py: unicode_to_binary
RECURSIVE binary_parts_v5(_)
binary_parts_v5(s) ==
    IF s = <<>> THEN <<>>
    ELSE << (IF IsBraille(Head(s)) THEN Format06b(Head(s) - BRAILLE_BASE)
             ELSE IF IsSpace(Head(s)) THEN Zeros(6)
             ELSE Zeros(6)) >> \o binary_parts_v5(Tail(s))

unicode_to_binary_v5(s) == IF s = <<>> THEN <<>> ELSE Concat(binary_parts_v5(s))

DotListDescending(code) ==
    LET D(i) == IF BitSet(code, i) THEN << <<Digit(i + 1)>> >> ELSE <<>>
    IN  D(5) \o D(4) \o D(3) \o D(2) \o D(1) \o D(0)

\* [str(i + 1) for i in range(6) if code & (1 << i)]
DotList(code) ==
    LET D(i) == IF BitSet(code, i) THEN << <<Digit(i + 1)>> >> ELSE <<>>
    IN  D(0) \o D(1) \o D(2) \o D(3) \o D(4) \o D(5)

DotToken(code) ==
    LET dots == DotList(code)
    IN  IF dots # <<>> THEN Join(<<CH_HYPHEN>>, dots) ELSE <<CH_ZERO>>

\* translator.py: unicode_to_dots
RECURSIVE dots_parts_v1(_)
dots_parts_v1(s) ==
    IF s = <<>> THEN <<>>
    ELSE << (IF IsBraille(Head(s)) THEN DotToken(Head(s) - BRAILLE_BASE) ELSE <<CH_ZERO>>) >>
         \o dots_parts_v1(Tail(s))

unicode_to_dots_v1(s) == Join(<<CH_SPACE>>, dots_parts_v1(s))

\* translator_v5.py: unicode_to_dots
RECURSIVE dots_parts_v5(_)
dots_parts_v5(s) ==
    IF s = <<>> THEN <<>>
    ELSE << (IF IsBraille(Head(s))
             THEN (IF Head(s) - BRAILLE_BASE = 0 THEN <<CH_ZERO>>
                   ELSE DotToken(Head(s) - BRAILLE_BASE))
             ELSE IF IsSpace(Head(s)) THEN <<CH_ZERO>>
             ELSE <<CH_ZERO>>) >> \o dots_parts_v5(Tail(s))

unicode_to_dots_v5(s) == IF s = <<>> THEN <<>> ELSE Join(<<CH_SPACE>>, dots_parts_v5(s))

\* chr(0x2800 + int(s[i:i+6], 2)) for i in range(0, len(s), 6)
RECURSIVE BitChunks(_)
BitChunks(s) ==
    IF s = <<>> THEN <<>>
    ELSE IF Len(s) <= 6 THEN <<Cell(ParseInt2(s))>>
    ELSE <<Cell(ParseInt2(SubSeq(s, 1, 6)))>> \o BitChunks(SubSeq(s, 7, Len(s)))

IsBitStr(s) == \A i \in 1..Len(s) : s[i] \in {Digit(0), Digit(1)}

binary_to_unicode_unchecked(s) == IF ~IsBitStr(s) THEN Raised ELSE Ok(BitChunks(s))

\* translator.py: binary_to_unicode (int(..., 2) raises on any other character)
binary_to_unicode_v1(s) ==
    IF Len(s) % 6 # 0 THEN Raised
    ELSE IF ~IsBitStr(s) THEN Raised
    ELSE Ok(BitChunks(s))

\* translator_v2.py: binary_to_unicode
binary_to_unicode_v2(s) ==
    IF Len(s) % 6 # 0 THEN Raised
    ELSE IF ~IsBitStr(s) THEN Raised
    ELSE Ok(BitChunks(s))

\* translator_v5.py: binary_to_unicode
binary_to_unicode_v5(s) ==
    IF s = <<>> THEN Ok(<<>>)
    ELSE LET cleaned == str_clean(s)
         IN  IF Len(cleaned) % 6 # 0 THEN Raised
             ELSE IF ~IsBitStr(cleaned) THEN Raised
             ELSE Ok(BitChunks(cleaned))

RECURSIVE DotsValueBelowSix(_)
DotsValueBelowSix(pieces) ==
    IF pieces = <<>> THEN {}
    ELSE LET digit_str == Head(pieces)
             rest == DotsValueBelowSix(Tail(pieces))
         IN  IF str_isdigit(digit_str)
             THEN (LET digit == ParseInt10(digit_str)
                   IN  IF 1 <= digit /\ digit < 6 THEN rest \cup {digit} ELSE rest)
             ELSE rest

\* value |= (1 << (digit - 1)) over the pieces of one token
RECURSIVE DotsValue(_)
DotsValue(pieces) ==
    IF pieces = <<>> THEN {}
    ELSE LET digit_str == Head(pieces)
             rest == DotsValue(Tail(pieces))
         IN  IF str_isdigit(digit_str)
             THEN (LET digit == ParseInt10(digit_str)
                   IN  IF 1 <= digit /\ digit <= 6 THEN rest \cup {digit} ELSE rest)
             ELSE rest

RECURSIVE SumPow2(_)
SumPow2(ds) ==
    IF ds = {} THEN 0
    ELSE LET d == CHOOSE x \in ds : TRUE IN Pow2(d - 1) + SumPow2(ds \ {d})

\* translator_v5.py: dots_to_unicode, one token
DotsTokenToCell(dots) ==
    IF dots = <<CH_ZERO>> \/ dots = <<>> THEN Cell(0)
    ELSE Cell(SumPow2(DotsValue(SplitOn(dots, CH_HYPHEN))))

\* translator_v5.py: dots_to_unicode
dots_to_unicode_v5(dots_str) ==
    IF dots_str = <<>> THEN Ok(<<>>)
    ELSE LET dots_list == str_split(dots_str)
         IN  Ok([i \in 1..Len(dots_list) |-> DotsTokenToCell(dots_list[i])])

(***************************************************************************)
(* The codec's operations as actions.                                      *)
(***************************************************************************)
Versions == {"v1", "v2", "v5"}
DotsAlphabet == {Digit(0), Digit(1), Digit(2), Digit(7), Digit(9), CH_HYPHEN, CH_SPACE, 97}
MixedAlphabet == {Cell(1), Cell(64), CH_SPACE, 57344}

unicode_to_binary(ver, s) ==
    IF ver = "v1" THEN unicode_to_binary_v1(s)
    ELSE IF ver = "v2" THEN unicode_to_binary_v2(s)
    ELSE unicode_to_binary_v5(s)

binary_to_unicode(ver, s) ==
    IF ver = "v1" THEN binary_to_unicode_v1(s)
    ELSE IF ver = "v2" THEN binary_to_unicode_v2(s)
    ELSE binary_to_unicode_v5(s)

unicode_to_dots(ver, s) == IF ver = "v1" THEN unicode_to_dots_v1(s) ELSE unicode_to_dots_v5(s)

CodecOff ==
    /\ codec_pc = "off" /\ codec_in = <<>> /\ codec_kind = "none" /\ codec_enc = "none"
    /\ codec_txt = <<>> /\ codec_dec = "none" /\ codec_out = Ok(<<>>)

CodecInit ==
    /\ codec_kind = "none" /\ codec_enc = "none" /\ codec_dec = "none"
    /\ codec_out = Ok(<<>>)
    /\ \/ /\ codec_pc = "cells"
          /\ codec_in \in SeqsUpTo(SixDotCells, MaxCells) \cup SeqsUpTo(MixedAlphabet, MaxMixed)
          /\ codec_txt = <<>>
       \/ /\ codec_pc = "rawbits"
          /\ codec_in = <<>>
          /\ codec_txt \in SeqsUpTo({Digit(0), Digit(1)}, MaxBits)
       \/ /\ codec_pc = "rawdots"
          /\ codec_in = <<>>
          /\ codec_txt \in SeqsUpTo(DotsAlphabet, MaxDots)

UnicodeToBinary(ver) ==
    /\ codec_pc = "cells"
    /\ codec_txt' = unicode_to_binary(ver, codec_in)
    /\ codec_kind' = "binary" /\ codec_enc' = ver /\ codec_pc' = "encoded"
    /\ UNCHANGED <<codec_in, codec_dec, codec_out, exceptCodec>>

UnicodeToDots(ver) ==
    /\ codec_pc = "cells"
    /\ codec_txt' = unicode_to_dots(ver, codec_in)
    /\ codec_kind' = "dots" /\ codec_enc' = ver /\ codec_pc' = "encoded"
    /\ UNCHANGED <<codec_in, codec_dec, codec_out, exceptCodec>>

BinaryToUnicode(ver) ==
    /\ (codec_pc = "encoded" /\ codec_kind = "binary" /\ codec_enc = ver) \/ codec_pc = "rawbits"
    /\ codec_out' = binary_to_unicode(ver, codec_txt)
    /\ codec_kind' = "binary" /\ codec_dec' = ver /\ codec_pc' = "decoded"
    /\ UNCHANGED <<codec_in, codec_enc, codec_txt, exceptCodec>>

DotsToUnicode ==
    /\ (codec_pc = "encoded" /\ codec_kind = "dots") \/ codec_pc = "rawdots"
    /\ codec_out' = dots_to_unicode_v5(codec_txt)
    /\ codec_kind' = "dots" /\ codec_dec' = "v5" /\ codec_pc' = "decoded"
    /\ UNCHANGED <<codec_in, codec_enc, codec_txt, exceptCodec>>

CodecNext ==
    \/ \E ver \in Versions : UnicodeToBinary(ver)
    \/ \E ver \in {"v1", "v5"} : UnicodeToDots(ver)
    \/ \E ver \in Versions : BinaryToUnicode(ver)
    \/ DotsToUnicode


(***************************************************************************)
(* Segmenters                                                              *)
(***************************************************************************)
IsHangulSyllable(c) == 44032 <= c /\ c <= 55203                 \* [가-힣]
IsAsciiLetter(c) == (65 <= c /\ c <= 90) \/ (97 <= c /\ c <= 122)  \* [A-Za-z]
\* the characters of the model that are letters outside ASCII and Hangul
\* syllables: Hangul compatibility jamo and Latin-1 letters
IsOtherLetter(c) == (12593 <= c /\ c <= 12643) \/ (192 <= c /\ c <= 255 /\ c \notin {215, 247})
\* \w of a str pattern: letters, digits and the underscore
IsWord(c) == IsHangulSyllable(c) \/ IsAsciiLetter(c) \/ IsOtherLetter(c) \/ IsAsciiDigit(c) \/ c = 95

\* The alternatives of a pattern (A+|B+|...), each a character class.
NAlt(pat) == IF pat = "v1" THEN 3 ELSE 4

InAlt(pat, k, c) ==
    IF pat = "v1"
    THEN CASE k = 1 -> IsHangulSyllable(c)                               \* [가-힣]+
           [] k = 2 -> IsAsciiLetter(c)                                  \* [A-Za-z]+
           [] OTHER -> ~(IsHangulSyllable(c) \/ IsAsciiLetter(c))        \* [^가-힣A-Za-z]+
    ELSE CASE k = 1 -> IsHangulSyllable(c) \/ IsSpace(c)                 \* (?P<ko>[가-힣\s]+)
           [] k = 2 -> IsAsciiLetter(c) \/ IsSpace(c)                    \* (?P<en>[a-zA-Z\s]+)
           [] k = 3 -> IsAsciiDigit(c) \/ IsSpace(c)                     \* (?P<num>[\d\s]+)
           [] OTHER -> ~IsWord(c) /\ ~IsSpace(c)                         \* (?P<other>[^\w\s]+)

\* the first alternative that matches at character c, 0 when none does
FirstAlt(pat, c) ==
    IF \E k \in 1..NAlt(pat) : InAlt(pat, k, c)
    THEN CHOOSE k \in 1..NAlt(pat) :
             InAlt(pat, k, c) /\ \A j \in 1..(k - 1) : ~InAlt(pat, j, c)
    ELSE 0

\* the end of the greedy match of alternative k that starts at position i
RECURSIVE GreedyEnd(_, _, _, _)
GreedyEnd(pat, k, s, i) ==
    IF i < Len(s) /\ InAlt(pat, k, s[i + 1]) THEN GreedyEnd(pat, k, s, i + 1) ELSE i

\* re.finditer / re.findall: the non-overlapping matches from position i on, as
\* [alt, text]; a character at which no alternative matches is skipped
RECURSIVE FindAll(_, _, _)
FindAll(pat, s, i) ==
    IF i > Len(s) THEN <<>>
    ELSE LET k == FirstAlt(pat, s[i])
         IN  IF k = 0 THEN FindAll(pat, s, i + 1)
             ELSE LET e == GreedyEnd(pat, k, s, i)
                  IN  <<[alt |-> k, text |-> SubSeq(s, i, e)]>> \o FindAll(pat, s, e + 1)

\* RE_KO.fullmatch(fragment), RE_EN.fullmatch(fragment)
FullMatchKo(fragment) == fragment # <<>> /\ \A i \in 1..Len(fragment) : IsHangulSyllable(fragment[i])
FullMatchEn(fragment) == fragment # <<>> /\ \A i \in 1..Len(fragment) : IsAsciiLetter(fragment[i])

\* translator.py: _split_by_lang, the loop body for one fragment
SplitByLangToken(fragment) ==
    IF fragment = <<>> THEN <<>>
    ELSE IF FullMatchKo(fragment) THEN <<[lang |-> "ko", text |-> fragment]>>
    ELSE IF FullMatchEn(fragment) THEN <<[lang |-> "en", text |-> fragment]>>
    ELSE <<[lang |-> "other", text |-> fragment]>>

RECURSIVE SplitByLangTokens(_)
SplitByLangTokens(ms) ==
    IF ms = <<>> THEN <<>> ELSE SplitByLangToken(Head(ms).text) \o SplitByLangTokens(Tail(ms))

\* translator.py: BrailleTranslator._split_by_lang
_split_by_lang(text) == SplitByLangTokens(FindAll("v1", text, 1))

\* translator_v2.py: split_text_by_language, the loop body for one match: the
\* group that took part in the match is the only one that is not None
V2Lang(k) == CASE k = 1 -> "ko" [] k = 2 -> "en" [] k = 3 -> "num" [] OTHER -> "other"

RECURSIVE SplitTextBlocks(_)
SplitTextBlocks(ms) ==
    IF ms = <<>> THEN <<>>
    ELSE (IF Head(ms).text # <<>>
          THEN <<[lang |-> V2Lang(Head(ms).alt), text |-> Head(ms).text]>> ELSE <<>>)
         \o SplitTextBlocks(Tail(ms))

\* translator_v2.py: split_text_by_language
split_text_by_language(text) == SplitTextBlocks(FindAll("v2", text, 1))

\* translator_v5.py: LanguageDetector._is_korean ... _is_punctuation
_is_korean(c) == (44032 <= c /\ c <= 55215) \/ (12593 <= c /\ c <= 12643)
_is_english(c) == (IsAsciiLetter(c) \/ IsHangulSyllable(c) \/ IsOtherLetter(c)) /\ c < 128
_is_number(c) == IsAsciiDigit(c)
\* '.,!?;:()[]{}\'"-+=*/\\<>@#$%^&|`~'
PunctuationChars ==
    {46, 44, 33, 63, 59, 58, 40, 41, 91, 93, 123, 125, 39, 34, 45, 43, 61, 42, 47, 92,
     60, 62, 64, 35, 36, 37, 94, 38, 124, 96, 126}
_is_punctuation(c) == c \in PunctuationChars

\* the first pattern of self.patterns, in insertion order, that holds of the
\* character; "none" stands for None
PatternOf(c) ==
    IF _is_korean(c) THEN "korean"
    ELSE IF _is_english(c) THEN "english"
    ELSE IF _is_number(c) THEN "number"
    ELSE IF _is_punctuation(c) THEN "punctuation"
    ELSE "none"

SegStepDropsChar(st, char) ==
    LET char_language == IF PatternOf(char) = "none" THEN "unknown" ELSE PatternOf(char)
    IN  IF st.current_language # "none" /\ st.current_language # char_language
        THEN [segments |-> st.segments \o <<[lang |-> st.current_language, text |-> st.current_segment]>>,
              current_segment |-> <<>>,
              current_language |-> char_language]
        ELSE [segments |-> st.segments,
              current_segment |-> st.current_segment \o <<char>>,
              current_language |-> char_language]

SegStepAlwaysSplits(st, char) ==
    LET char_language == IF PatternOf(char) = "none" THEN "unknown" ELSE PatternOf(char)
    IN  IF st.current_language # "none"
        THEN [segments |-> st.segments \o <<[lang |-> st.current_language, text |-> st.current_segment]>>,
              current_segment |-> <<char>>,
              current_language |-> char_language]
        ELSE [segments |-> st.segments,
              current_segment |-> st.current_segment \o <<char>>,
              current_language |-> char_language]

\* translator_v5.py: segment_by_language, the loop body for one character
SegStep(st, char) ==
    LET char_language == IF PatternOf(char) = "none" THEN "unknown" ELSE PatternOf(char)
    IN  IF st.current_language # "none" /\ st.current_language # char_language
        THEN [segments |->
                  IF st.current_segment # <<>>
                  THEN st.segments \o <<[lang |-> st.current_language, text |-> st.current_segment]>>
                  ELSE st.segments,
              current_segment |-> <<char>>,
              current_language |-> char_language]
        ELSE [segments |-> st.segments,
              current_segment |-> st.current_segment \o <<char>>,
              current_language |-> char_language]

RECURSIVE SegLoop(_, _)
SegLoop(st, text) == IF text = <<>> THEN st ELSE SegLoop(SegStep(st, Head(text)), Tail(text))

\* translator_v5.py: LanguageDetector.segment_by_language
segment_by_language(text) ==
    LET st == SegLoop([segments |-> <<>>, current_segment |-> <<>>, current_language |-> "none"], text)
    IN  IF st.current_segment # <<>>
        THEN st.segments \o <<[lang |-> st.current_language, text |-> st.current_segment]>>
        ELSE st.segments

(***************************************************************************)
(* The segmenters as actions.                                              *)
(***************************************************************************)
\* 'a' 'A' '1' '.' ' ' '\n' '_' '가' 'ㄱ' 'é'
TextAlphabet == {97, 65, 49, 46, CH_SPACE, CH_NEWLINE, 95, 44032, 12593, 233}

SegOff == seg_pc = "off" /\ seg_text = <<>> /\ seg_fn = "none" /\ seg_runs = <<>>

SegInit ==
    /\ seg_pc = "text" /\ seg_fn = "none" /\ seg_runs = <<>>
    /\ seg_text \in SeqsUpTo(TextAlphabet, MaxText)

SplitByLang ==
    /\ seg_pc = "text"
    /\ seg_runs' = _split_by_lang(seg_text)
    /\ seg_fn' = "v1" /\ seg_pc' = "done"
    /\ UNCHANGED <<seg_text, exceptSeg>>

SplitTextByLanguage ==
    /\ seg_pc = "text"
    /\ seg_runs' = split_text_by_language(seg_text)
    /\ seg_fn' = "v2" /\ seg_pc' = "done"
    /\ UNCHANGED <<seg_text, exceptSeg>>

SegmentByLanguage ==
    /\ seg_pc = "text"
    /\ seg_runs' = segment_by_language(seg_text)
    /\ seg_fn' = "v5" /\ seg_pc' = "done"
    /\ UNCHANGED <<seg_text, exceptSeg>>

SegNext == SplitByLang \/ SplitTextByLanguage \/ SegmentByLanguage


(***************************************************************************)
(* The Translation Service: the lou_translate executable that _run_cli     *)
(* runs.  It is the environment of the program.  The record lou fixes how  *)
(* it behaves in one run of the model:                                     *)
(*   lou.g2, lou.g1    forward translation with a grade-2 / grade-1 table: *)
(*                     "ok", "fail" (non-zero exit) or "empty" (no output) *)
(*   lou.back          backward translation: "ok" or "fail"                *)
(*   lou.digits        "numsign": a digit becomes the number sign and its  *)
(*                     letter cell; "letters": the letter cell alone       *)
(* When it works it translates character by character: a lower-case letter *)
(* to its cell, a capital to the capital sign and the cell, a Hangul       *)
(* syllable to one cell, a braille character to itself, and with a grade-2 *)
(* table a fragment that is a contraction word of the table to one cell.   *)
(***************************************************************************)
CAPITAL_SIGN == 10272        \* chr(0x2820)
BRL_NUM_SIGN == 10300        \* '⠼'
BRL_PARAGRAPH == 10302       \* chr(0x283E)
BRL_NEWLINE == 10303         \* chr(0x283F)

\* g2, g1, back: what a forward call with a grade-2 table, a forward call with
\* a grade-1 table and a backward call do; missing: the language whose table
\* files are not installed, so that every call with them exits non-zero
LouProfiles ==
    [g2 : {"ok", "fail", "empty"}, g1 : {"ok", "fail"}, back : {"ok", "fail"},
     digits : {"numsign", "letters"}, missing : {"none", "ko"}]

\* 'a' -> ⠁, 'b' -> ⠃, 'c' -> ⠉, ... 'j' -> ⠚ (the cells of BRL_NUM_MAP)
LetterCells == <<1, 3, 9, 25, 17, 11, 27, 19, 10, 26>>
IsLowerAJ(c) == 97 <= c /\ c <= 106
IsUpperAJ(c) == 65 <= c /\ c <= 74
IsLetterCell(c) == \E i \in 1..10 : c = Cell(LetterCells[i])
LetterOfCell(c) == 96 + (CHOOSE i \in 1..10 : c = Cell(LetterCells[i]))
\* the digit d (1..9, 0) shares its cell with the d-th letter ('0' with 'j')
DigitCell(c) == Cell(LetterCells[IF c = CH_ZERO THEN 10 ELSE c - CH_ZERO])
DigitOfCell(c) ==
    LET i == CHOOSE k \in 1..10 : c = Cell(LetterCells[k]) IN IF i = 10 THEN CH_ZERO ELSE CH_ZERO + i

LouForwardChar(c) ==
    IF IsBraille(c) THEN <<c>>
    ELSE IF IsLowerAJ(c) THEN <<Cell(LetterCells[c - 96])>>
    ELSE IF IsUpperAJ(c) THEN <<CAPITAL_SIGN, Cell(LetterCells[c - 64])>>
    ELSE IF IsAsciiDigit(c)
         THEN (IF lou.digits = "numsign" THEN <<BRL_NUM_SIGN, DigitCell(c)>> ELSE <<DigitCell(c)>>)
    ELSE IF c = CH_SPACE THEN <<Cell(0)>>
    ELSE IF IsHangulSyllable(c) THEN <<Cell(43)>>
    ELSE <<Cell(50)>>

\* a run of digits gets one number sign, in front of its first digit
RECURSIVE LouForwardFrom(_, _)
LouForwardFrom(text, after_digit) ==
    IF text = <<>> THEN <<>>
    ELSE (IF IsAsciiDigit(Head(text)) /\ after_digit THEN <<DigitCell(Head(text))>>
          ELSE LouForwardChar(Head(text)))
         \o LouForwardFrom(Tail(text), IsAsciiDigit(Head(text)))

LouForwardChars(text) == LouForwardFrom(text, FALSE)

\* the cells a grade-2 table gives the k-th contraction word of its language:
\* the first word one cell, the second that cell and one more, the third the
\* cell with all six dots (as English grade 2 writes "for"), the fourth one cell
ContractionCells(k) ==
    IF k = 3 THEN <<Cell(63)>> ELSE IF k = 4 THEN <<Cell(49)>> ELSE [i \in 1..k |-> Cell(46 + i)]

\* the tables are [lang, grade]; "other" uses the English tables
LANG_TABLE(lang, grade) == [lang |-> IF lang = "ko" THEN "ko" ELSE "en", grade |-> grade]

WordIndex(words, text) == IF \E k \in 1..Len(words) : words[k] = text
                          THEN CHOOSE k \in 1..Len(words) : words[k] = text ELSE 0

\* stdout and exit status of: lou_translate -b table text
LouForward(table, text) ==
    LET mode == IF table.grade = "g2" THEN lou.g2 ELSE lou.g1
        k == IF table.grade = "g2" THEN WordIndex(g2_contractions[table.lang], text) ELSE 0
    IN  IF mode = "fail" \/ lou.missing = table.lang THEN Raised
        ELSE IF mode = "empty" THEN Ok(<<>>)
        ELSE IF k > 0 THEN Ok(ContractionCells(k))
        ELSE Ok(LouForwardChars(text))

\* the digits of the letter cells that cells starts with
RECURSIVE LeadingDigits(_)
LeadingDigits(cells) ==
    IF cells # <<>> /\ IsLetterCell(Head(cells))
    THEN <<DigitOfCell(Head(cells))>> \o LeadingDigits(Tail(cells)) ELSE <<>>

\* stdout and exit status of: lou_translate -r -b table cells
RECURSIVE LouBackwardCells(_, _)
LouBackwardCells(table, cells) ==
    IF cells = <<>> THEN <<>>
    ELSE LET c == Head(cells)
             known == {j \in 1..Len(g2_contractions[table.lang]) :
                          /\ Len(cells) >= Len(ContractionCells(j))
                          /\ SubSeq(cells, 1, Len(ContractionCells(j))) = ContractionCells(j)}
             k == CHOOSE j \in known :
                      \A i \in known : Len(ContractionCells(i)) <= Len(ContractionCells(j))
         IN  IF table.grade = "g2" /\ known # {}
             THEN g2_contractions[table.lang][k]
                  \o LouBackwardCells(table, SubSeq(cells, Len(ContractionCells(k)) + 1, Len(cells)))
             ELSE IF c = CAPITAL_SIGN /\ Len(cells) >= 2 /\ IsLetterCell(cells[2])
             THEN <<LetterOfCell(cells[2]) - 32>> \o LouBackwardCells(table, SubSeq(cells, 3, Len(cells)))
             ELSE IF c = BRL_NUM_SIGN /\ Len(cells) >= 2 /\ IsLetterCell(cells[2])
             THEN LeadingDigits(Tail(cells))
                  \o LouBackwardCells(table, SubSeq(cells, 2 + Len(LeadingDigits(Tail(cells))), Len(cells)))
             ELSE IF table.lang = "en" /\ IsLetterCell(c)
             THEN <<LetterOfCell(c)>> \o LouBackwardCells(table, Tail(cells))
             ELSE IF table.lang = "ko" /\ c = Cell(43)
             THEN <<44032>> \o LouBackwardCells(table, Tail(cells))
             ELSE IF c = Cell(0) THEN <<CH_SPACE>> \o LouBackwardCells(table, Tail(cells))
             ELSE IF IsBraille(c) THEN LouBackwardCells(table, Tail(cells))
             ELSE <<c>> \o LouBackwardCells(table, Tail(cells))

LouBackward(table, cells) ==
    IF lou.back = "fail" \/ lou.missing = table.lang THEN Raised
    ELSE Ok(LouBackwardCells(table, cells))

(***************************************************************************)
(* BrailleTranslator (V1): text_to_braille                                 *)
(***************************************************************************)
\* s.strip()
RECURSIVE LStrip(_)
LStrip(s) == IF s # <<>> /\ IsSpace(Head(s)) THEN LStrip(Tail(s)) ELSE s
RECURSIVE RStrip(_)
RStrip(s) == IF s # <<>> /\ IsSpace(s[Len(s)]) THEN RStrip(SubSeq(s, 1, Len(s) - 1)) ELSE s
str_strip(s) == RStrip(LStrip(s))

\* s.split("\n\n")
RECURSIVE SplitParagraphs(_)
SplitParagraphs(s) ==
    IF s = <<>> THEN << <<>> >>
    ELSE IF Len(s) >= 2 /\ s[1] = CH_NEWLINE /\ s[2] = CH_NEWLINE
         THEN << <<>> >> \o SplitParagraphs(SubSeq(s, 3, Len(s)))
    ELSE LET rest == SplitParagraphs(Tail(s))
         IN  << <<Head(s)>> \o Head(rest) >> \o Tail(rest)

\* s.splitlines(): no empty last line after a final line break
str_splitlines(s) ==
    LET pieces == SplitOn(s, CH_NEWLINE)
    IN  IF pieces[Len(pieces)] = <<>> THEN SubSeq(pieces, 1, Len(pieces) - 1) ELSE pieces

\* translator.py: _run_cli
_run_cli(table, text, mode) ==
    LET result == IF mode = "backward" THEN LouBackward(table, text) ELSE LouForward(table, text)
    IN  IF result.err THEN Raised ELSE Ok(str_strip(result.val))

\* BRL_SWITCH[("text", lang)]
BRL_SWITCH(lang) == IF lang = "ko" THEN 57344 ELSE IF lang = "en" THEN 57345 ELSE 57346
IsSwitchMarker(c) == c \in {BRL_SWITCH("ko"), BRL_SWITCH("en"), BRL_SWITCH("other")}
MarkerLang(c) == IF c = BRL_SWITCH("ko") THEN "ko" ELSE IF c = BRL_SWITCH("en") THEN "en" ELSE "other"

\* fragment.isdigit(), fragment.isupper() on the characters of the model
str_isupper(s) ==
    /\ \E i \in 1..Len(s) : 65 <= s[i] /\ s[i] <= 90
    /\ \A i \in 1..Len(s) : ~(97 <= s[i] /\ s[i] <= 122)

\* translator.py: BrailleTranslator._apply_special_modes
_apply_special_modes(lang, fragment) ==
    IF lang = "other" /\ str_isdigit(fragment) THEN <<BRL_NUM_SIGN>> \o fragment
    ELSE IF lang = "en" /\ str_isupper(fragment) /\ Len(fragment) > 1
         THEN <<CAPITAL_SIGN, CAPITAL_SIGN>> \o fragment
    ELSE fragment

\* the fallback taken only when grade 2 raises or returns nothing
RunTranslationNoLengthCheck(lang, fragment) ==
    LET processed_fragment == _apply_special_modes(lang, fragment)
        g2 == _run_cli(LANG_TABLE(lang, "g2"), processed_fragment, "forward")
        g1 == _run_cli(LANG_TABLE(lang, "g1"), processed_fragment, "forward")
    IN  IF g2.err \/ g2.val = <<>>
        THEN [calls |-> <<LANG_TABLE(lang, "g2"), LANG_TABLE(lang, "g1")>>,
              brl |-> IF g1.err THEN <<>> ELSE g1.val]
        ELSE [calls |-> <<LANG_TABLE(lang, "g2")>>, brl |-> g2.val]

\* translator.py: text_to_braille, the try/except of one run: the tables
\* _run_cli was called with, in order, and brl
RunTranslation(lang, fragment) ==
    LET processed_fragment == _apply_special_modes(lang, fragment)
        tbl_g2 == LANG_TABLE(lang, "g2")
        tbl_g1 == LANG_TABLE(lang, "g1")
        g2 == _run_cli(tbl_g2, processed_fragment, "forward")
        g1 == _run_cli(tbl_g1, processed_fragment, "forward")
        fallback == g2.err \/ g2.val = <<>> \/ Len(g2.val) < Len(processed_fragment) \div 2
    IN  IF fallback
        THEN [calls |-> <<tbl_g2, tbl_g1>>, brl |-> IF g1.err THEN <<>> ELSE g1.val]
        ELSE [calls |-> <<tbl_g2>>, brl |-> g2.val]

\* translator.py: text_to_braille, the body of the loop over the runs of a line
TranslateRun(lang, fragment) == <<BRL_SWITCH(lang)>> \o RunTranslation(lang, fragment).brl

\* the loop over the runs given up at the first run that yields no cells
RECURSIVE TranslateRunsStopAtFailure(_)
TranslateRunsStopAtFailure(runs) ==
    IF runs = <<>> THEN <<>>
    ELSE IF RunTranslation(Head(runs).lang, Head(runs).text).brl = <<>> THEN <<>>
    ELSE TranslateRun(Head(runs).lang, Head(runs).text) \o TranslateRunsStopAtFailure(Tail(runs))

RECURSIVE TranslateRuns(_)
TranslateRuns(runs) ==
    IF runs = <<>> THEN <<>>
    ELSE TranslateRun(Head(runs).lang, Head(runs).text) \o TranslateRuns(Tail(runs))

\* the loop over the lines of a paragraph, BRL_NEWLINE between lines
RECURSIVE EncodeLines(_)
EncodeLines(lines) ==
    IF lines = <<>> THEN <<>>
    ELSE TranslateRuns(_split_by_lang(Head(lines)))
         \o (IF Len(lines) > 1 THEN <<BRL_NEWLINE>> ELSE <<>>)
         \o EncodeLines(Tail(lines))

\* the loop over the paragraphs, BRL_PARAGRAPH between paragraphs
RECURSIVE EncodeParagraphs(_)
EncodeParagraphs(paragraphs) ==
    IF paragraphs = <<>> THEN <<>>
    ELSE EncodeLines(str_splitlines(Head(paragraphs)))
         \o (IF Len(paragraphs) > 1 THEN <<BRL_PARAGRAPH>> ELSE <<>>)
         \o EncodeParagraphs(Tail(paragraphs))

\* translator.py: BrailleTranslator.text_to_braille(text, fmt="unicode")
text_to_braille(text) == EncodeParagraphs(SplitParagraphs(str_strip(text)))

RECURSIVE RunsOfLines(_)
RunsOfLines(lines) ==
    IF lines = <<>> THEN <<>> ELSE _split_by_lang(Head(lines)) \o RunsOfLines(Tail(lines))

RECURSIVE RunsOfParagraphs(_)
RunsOfParagraphs(paragraphs) ==
    IF paragraphs = <<>> THEN <<>>
    ELSE RunsOfLines(str_splitlines(Head(paragraphs))) \o RunsOfParagraphs(Tail(paragraphs))

\* the runs that text_to_braille hands to the Translation Service
RunsOfText(text) == RunsOfParagraphs(SplitParagraphs(str_strip(text)))

\* what text_to_braille did for each run, in the order of the runs
RECURSIVE RunLog(_)
RunLog(runs) ==
    IF runs = <<>> THEN <<>>
    ELSE LET t == RunTranslation(Head(runs).lang, Head(runs).text)
         IN  <<[lang |-> Head(runs).lang, text |-> Head(runs).text,
                calls |-> t.calls, brl |-> t.brl]>> \o RunLog(Tail(runs))

(***************************************************************************)
(* BrailleTranslator (V1): __init__ and braille_to_text                    *)
(***************************************************************************)
Langs == {"ko", "en", "other"}

\* reverse_map[lang][braille] = word: a dict, as the set of its items
DictPut(d, key, value) == {it \in d : it.brl # key} \cup {[brl |-> key, word |-> value]}
DictHas(d, key) == \E it \in d : it.brl = key
DictGet(d, key) == (CHOOSE it \in d : it.brl = key).word

\* translator.py: _build_g2_reverse_map, the loop over the words of a language
RECURSIVE ReverseMapOf(_, _, _)
ReverseMapOf(lang, words, d) ==
    IF words = <<>> THEN d
    ELSE LET braille == _run_cli(LANG_TABLE(lang, "g2"), Head(words), "forward")
         IN  ReverseMapOf(lang, Tail(words),
                          IF braille.err THEN d ELSE DictPut(d, braille.val, Head(words)))

\* translator.py: _build_g2_reverse_map
_build_g2_reverse_map(g2_map) == [lang \in Langs |-> ReverseMapOf(lang, g2_map[lang], {})]

\* translator.py: BrailleTranslator._split_by_lang_braille, the while loop
RECURSIVE SplitBrailleLoop(_, _, _, _)
SplitBrailleLoop(line, segments, cur_lang, buf) ==
    IF line = <<>>
    THEN (IF buf # <<>> THEN segments \o <<[lang |-> cur_lang, text |-> buf]>> ELSE segments)
    ELSE LET char == Head(line)
         IN  IF IsSwitchMarker(char)
             THEN SplitBrailleLoop(Tail(line),
                                   IF buf # <<>> THEN segments \o <<[lang |-> cur_lang, text |-> buf]>>
                                   ELSE segments,
                                   MarkerLang(char), <<>>)
             ELSE SplitBrailleLoop(Tail(line), segments, cur_lang, buf \o <<char>>)

\* the loop without "if buf: segments.append((cur_lang, buf))" at a marker
RECURSIVE SplitBrailleLoopNoFlush(_, _, _, _)
SplitBrailleLoopNoFlush(line, segments, cur_lang, buf) ==
    IF line = <<>>
    THEN (IF buf # <<>> THEN segments \o <<[lang |-> cur_lang, text |-> buf]>> ELSE segments)
    ELSE LET char == Head(line)
         IN  IF IsSwitchMarker(char)
             THEN SplitBrailleLoopNoFlush(Tail(line), segments, MarkerLang(char), buf)
             ELSE SplitBrailleLoopNoFlush(Tail(line), segments, cur_lang, buf \o <<char>>)

_split_by_lang_braille_no_flush(line) ==
    SplitBrailleLoopNoFlush(line, <<>>, "other", <<>>)

\* translator.py: BrailleTranslator._split_by_lang_braille
_split_by_lang_braille(line) ==
    SplitBrailleLoop(line, <<>>,
                     IF line # <<>> /\ IsSwitchMarker(line[1]) THEN MarkerLang(line[1]) ELSE "other",
                     <<>>)

\* the attributes that __init__ sets on self; any other raises AttributeError
SelfAttributes == {"lou_exec", "table_dir", "g2_contractions", "g2_reverse_map"}
HasAttr(name) == name \in SelfAttributes

\* s.upper()
str_upper(s) == [i \in 1..Len(s) |-> IF 97 <= s[i] /\ s[i] <= 122 THEN s[i] - 32 ELSE s[i]]

\* BRL_NUM_MAP
InNumMap(c) == IsLetterCell(c)
BRL_NUM_MAP(c) == DigitOfCell(c)

\* braille_to_text, step 1: the loop that restores a capital word cell by cell.
\* cursor values count the cells already consumed (Python's 0-based index).
RECURSIVE CapitalWordLoop(_, _, _, _)
CapitalWordLoop(lang, brl_segment, word_cursor, word_buffer) ==
    IF word_cursor < Len(brl_segment)
    THEN LET restored == IF HasAttr("lou_exec") /\ HasAttr("table_dir")
                         THEN _run_cli(LANG_TABLE(lang, "g2"), <<brl_segment[word_cursor + 1]>>, "backward")
                         ELSE Raised
         IN  IF restored.err THEN [buf |-> word_buffer, cur |-> word_cursor]
             ELSE CapitalWordLoop(lang, brl_segment, word_cursor + 1, word_buffer \o restored.val)
    ELSE [buf |-> word_buffer, cur |-> word_cursor]

\* step 2: the loop that reads the digits after the number sign
RECURSIVE NumberLoop(_, _, _)
NumberLoop(brl_segment, num_cursor, num_buffer) ==
    IF num_cursor < Len(brl_segment) /\ InNumMap(brl_segment[num_cursor + 1])
    THEN NumberLoop(brl_segment, num_cursor + 1, num_buffer \o <<BRL_NUM_MAP(brl_segment[num_cursor + 1])>>)
    ELSE [buf |-> num_buffer, cur |-> num_cursor]

\* the shortest piece that is a key, where the code takes the longest
RECURSIVE ContractionEndShortest(_, _, _, _)
ContractionEndShortest(reverse_map, brl_segment, cursor, end) ==
    IF end > Len(brl_segment) THEN 0
    ELSE IF DictHas(reverse_map, SubSeq(brl_segment, cursor + 1, end)) THEN end
    ELSE ContractionEndShortest(reverse_map, brl_segment, cursor, end + 1)

ContractionEndFromCursor(reverse_map, brl_segment, cursor, end) ==
    ContractionEndShortest(reverse_map, brl_segment, cursor, cursor + 1)

\* step 3: for end in range(len(brl_segment), cursor, -1): the first end whose
\* piece is a key of reverse_map, 0 when there is none
RECURSIVE ContractionEnd(_, _, _, _)
ContractionEnd(reverse_map, brl_segment, cursor, end) ==
    IF end <= cursor THEN 0
    ELSE IF DictHas(reverse_map, SubSeq(brl_segment, cursor + 1, end)) THEN end
    ELSE ContractionEnd(reverse_map, brl_segment, cursor, end - 1)

\* step 4: one cell through the Translation Service, grade 2 then grade 1; the
\* arguments self.lou_executable and self.tables_dir are evaluated first
SingleCellRestore(lang, raw_char) ==
    LET g2 == IF HasAttr("lou_executable") /\ HasAttr("tables_dir")
              THEN _run_cli(LANG_TABLE(lang, "g2"), <<raw_char>>, "backward") ELSE Raised
        g1 == IF HasAttr("lou_executable") /\ HasAttr("tables_dir")
              THEN _run_cli(LANG_TABLE(lang, "g1"), <<raw_char>>, "backward") ELSE Raised
    IN  IF ~g2.err THEN g2.val ELSE IF ~g1.err THEN g1.val ELSE <<>>

\* the iteration with step 4 leaving the cursor where it is when nothing was
\* restored
DecodeStepCellStays(lang, segment, cursor) ==
    LET reverse_map == g2_reverse_map[lang]
        word == CapitalWordLoop(lang, segment, cursor + 2, <<>>)
        caps == /\ lang = "en"
                /\ SubSeq(segment, cursor + 1, IF cursor + 2 <= Len(segment) THEN cursor + 2 ELSE Len(segment))
                       = <<CAPITAL_SIGN, CAPITAL_SIGN>>
                /\ word.buf # <<>>
        num == NumberLoop(segment, cursor + 1, <<>>)
        digits == segment[cursor + 1] = BRL_NUM_SIGN /\ num.buf # <<>>
        end == ContractionEnd(reverse_map, segment, cursor, Len(segment))
        restored == SingleCellRestore(lang, segment[cursor + 1])
    IN  IF caps THEN [cur |-> word.cur, add |-> str_upper(word.buf), step |-> "capital"]
        ELSE IF digits THEN [cur |-> num.cur, add |-> num.buf, step |-> "number"]
        ELSE IF end # 0
             THEN [cur |-> end, add |-> DictGet(reverse_map, SubSeq(segment, cursor + 1, end)),
                   step |-> "contraction"]
        ELSE [cur |-> IF restored = <<>> THEN cursor ELSE cursor + 1, add |-> restored, step |-> "cell"]

\* braille_to_text: one iteration of "while cursor < len(brl_segment)";
\* returns the new cursor, the text appended to buffer and the step that matched
DecodeStep(lang, brl_segment, cursor) ==
    LET reverse_map == g2_reverse_map[lang]
        word == CapitalWordLoop(lang, brl_segment, cursor + 2, <<>>)
        caps == /\ lang = "en"
                /\ SubSeq(brl_segment, cursor + 1, IF cursor + 2 <= Len(brl_segment) THEN cursor + 2 ELSE Len(brl_segment))
                       = <<CAPITAL_SIGN, CAPITAL_SIGN>>
                /\ word.buf # <<>>
        num == NumberLoop(brl_segment, cursor + 1, <<>>)
        digits == brl_segment[cursor + 1] = BRL_NUM_SIGN /\ num.buf # <<>>
        end == ContractionEnd(reverse_map, brl_segment, cursor, Len(brl_segment))
    IN  IF caps THEN [cur |-> word.cur, add |-> str_upper(word.buf), step |-> "capital"]
        ELSE IF digits THEN [cur |-> num.cur, add |-> num.buf, step |-> "number"]
        ELSE IF end # 0
             THEN [cur |-> end, add |-> DictGet(reverse_map, SubSeq(brl_segment, cursor + 1, end)),
                   step |-> "contraction"]
        ELSE [cur |-> cursor + 1, add |-> SingleCellRestore(lang, brl_segment[cursor + 1]),
              step |-> "cell"]

RECURSIVE DecodeSegment(_, _, _, _)
DecodeSegment(lang, brl_segment, cursor, buffer) ==
    IF cursor < Len(brl_segment)
    THEN LET st == DecodeStep(lang, brl_segment, cursor)
         IN  DecodeSegment(lang, brl_segment, st.cur, buffer \o st.add)
    ELSE buffer

RECURSIVE DecodeSegments(_)
DecodeSegments(segments) ==
    IF segments = <<>> THEN <<>>
    ELSE DecodeSegment(Head(segments).lang, Head(segments).text, 0, <<>>) \o DecodeSegments(Tail(segments))

RECURSIVE DecodeLines(_)
DecodeLines(lines) ==
    IF lines = <<>> THEN <<>>
    ELSE DecodeSegments(_split_by_lang_braille(Head(lines)))
         \o (IF Len(lines) > 1 THEN <<CH_NEWLINE>> ELSE <<>>)
         \o DecodeLines(Tail(lines))

RECURSIVE DecodeParagraphs(_)
DecodeParagraphs(paragraphs) ==
    IF paragraphs = <<>> THEN <<>>
    ELSE DecodeLines(SplitOn(Head(paragraphs), BRL_NEWLINE))
         \o (IF Len(paragraphs) > 1 THEN <<CH_NEWLINE, CH_NEWLINE>> ELSE <<>>)
         \o DecodeParagraphs(Tail(paragraphs))

\* translator.py: BrailleTranslator.braille_to_text
braille_to_text(braille) == str_strip(DecodeParagraphs(SplitOn(str_strip(braille), BRL_PARAGRAPH)))

(***************************************************************************)
(* BrailleTranslator's operations as actions.                              *)
(***************************************************************************)
\* 'a' 'b' 'A' 'B' '1' ' ' '\n' '가'
TrAlphabet == {97, 98, 65, 66, 49, CH_SPACE, CH_NEWLINE, 44032}

\* longer texts: "ABC 123", "abab"
ScenarioTexts == {<<65, 66, 67, CH_SPACE, 49, 50, 51>>, <<97, 98, 97, 98>>}

\* load_g2_contractions: no grade-2 table file, or tables with the word "ab",
\* or with the words "ab", "aba", "bb" and "abab" ("other" reads the English table)
ContractionTables ==
    {[lang \in Langs |-> <<>>],
     [lang \in Langs |-> IF lang = "ko" THEN <<>> ELSE << <<97, 98>> >>],
     [lang \in Langs |-> IF lang = "ko" THEN <<>> ELSE << <<97, 98>>, <<97, 98, 97>>, <<98, 98>>, <<97, 98, 97, 98>> >>]}

TrOff ==
    /\ tr_pc = "off"
    /\ lou = [g2 |-> "ok", g1 |-> "ok", back |-> "ok", digits |-> "numsign", missing |-> "none"]
    /\ g2_contractions = [lang \in Langs |-> <<>>]
    /\ g2_reverse_map = [lang \in Langs |-> {}]
    /\ tr_text = <<>> /\ tr_braille = <<>> /\ tr_restored = <<>>
    /\ lou_hangs = FALSE /\ tr_log = <<>> /\ tr_failures = <<>>

\* the state after BrailleTranslator.__init__
TrNew(tables) ==
    /\ tr_pc = "new"
    /\ lou \in LouProfiles
    /\ g2_contractions \in tables
    /\ g2_reverse_map = _build_g2_reverse_map(g2_contractions)
    /\ tr_braille = <<>> /\ tr_restored = <<>>
    /\ tr_log = <<>> /\ tr_failures = <<>>

TrInit ==
    /\ TrNew(ContractionTables)
    /\ tr_text \in SeqsUpTo(TrAlphabet, MaxTrText) \cup ScenarioTexts
    /\ lou_hangs = FALSE

\* the same without grade-2 word lists, with a lou_translate process that may
\* never exit
TrInitLive ==
    /\ TrNew({[lang \in Langs |-> <<>>]})
    /\ tr_text \in SeqsUpTo(TrAlphabet, MaxLiveText)
    /\ lou_hangs \in BOOLEAN

\* text_to_braille returns the str alone and sets no attribute: the except
\* clause of the grade-1 call assigns brl = "" and reports nothing
TextToBraille ==
    /\ tr_pc = "new"
    /\ ~lou_hangs \/ RunsOfText(tr_text) = <<>>
    /\ tr_braille' = text_to_braille(tr_text)
    /\ tr_log' = RunLog(RunsOfText(tr_text))
    /\ tr_failures' = <<>>
    /\ tr_pc' = "encoded"
    /\ UNCHANGED <<lou, lou_hangs, g2_contractions, g2_reverse_map, tr_text, tr_restored, exceptTr>>

BrailleToText ==
    /\ tr_pc = "encoded"
    /\ tr_restored' = braille_to_text(tr_braille)
    /\ tr_pc' = "decoded"
    /\ UNCHANGED <<lou, lou_hangs, g2_contractions, g2_reverse_map, tr_text, tr_braille,
                   tr_log, tr_failures, exceptTr>>

TrNext == TextToBraille \/ BrailleToText

\* text_to_braille with a lou_translate process that never exits: _run_cli
\* calls subprocess.run(cmd, capture_output=True, text=True), which has no
\* timeout and waits for the process, so the first call never returns
TextToBrailleBlocks ==
    /\ tr_pc = "new"
    /\ lou_hangs /\ RunsOfText(tr_text) # <<>>
    /\ tr_pc' = "blocked"
    /\ UNCHANGED <<lou, lou_hangs, g2_contractions, g2_reverse_map, tr_text, tr_braille,
                   tr_restored, tr_log, tr_failures, exceptTr>>

TrLiveNext == TextToBraille \/ TextToBrailleBlocks \/ BrailleToText

\* the step from one position of the caller to the next: a call that is made
\* runs until it returns or until it waits for the lou_translate process
TrProgress ==
    /\ tr_pc \in {"new", "encoded"}
    /\ tr_pc' = IF tr_pc = "encoded" THEN "decoded"
              ELSE IF lou_hangs /\ RunsOfText(tr_text) # <<>> THEN "blocked"
              ELSE "encoded"

(***************************************************************************)
(* BrailleTranslator (V1): text_to_braille_image and image_to_binary.      *)
(* The image is white but for the filled circles; a pixel is black when it *)
(* lies within dot_radius of a centre.  Circles are clipped to the image.  *)
(***************************************************************************)
CELL_SIZE == 40
DOT_RADIUS == 6
MARGIN == 20
THRESHOLD == 128

RECURSIVE MaxLineLen(_)
MaxLineLen(lines) ==
    IF lines = <<>> THEN 0
    ELSE LET rest == MaxLineLen(Tail(lines))
         IN  IF Len(Head(lines)) > rest THEN Len(Head(lines)) ELSE rest

\* text_to_braille_image: the circles drawn for the char ch at row r, column c
\* (both from 0); i runs over every bit of unicode_to_binary(ch)
CirclesOf(ch, r, c, cell_size, margin) ==
    LET base_x == margin + c * (cell_size + margin)
        base_y == margin + r * (cell_size + margin)
        bits == unicode_to_binary_v1(<<ch>>)
    IN  {[x |-> base_x + (cell_size \div 4) + ((i % 2) * (cell_size \div 2)),
          y |-> base_y + (cell_size \div 6) + ((i \div 2) * (cell_size \div 3))] :
             i \in {j \in 0..(Len(bits) - 1) : bits[j + 1] = Digit(1)}}

\* translator.py: BrailleTranslator.text_to_braille_image, the lines laid out
LinesOf(text) == IF text = <<>> THEN <<>> ELSE SplitOn(text_to_braille(text), BRL_NEWLINE)

\* translator.py: BrailleTranslator.text_to_braille_image
text_to_braille_image(text, cell_size, dot_radius, margin) ==
    IF text = <<>> THEN [h |-> margin * 2, w |-> margin * 2, r |-> dot_radius, discs |-> {}]
    ELSE LET lines == LinesOf(text)
             rows == Len(lines)
             cols == MaxLineLen(lines)
         IN  [h |-> rows * (cell_size + margin) + margin,
              w |-> cols * (cell_size + margin) + margin,
              r |-> dot_radius,
              discs |-> UNION {UNION {CirclesOf(lines[r][c], r - 1, c - 1, cell_size, margin) :
                                         c \in 1..Len(lines[r])} : r \in 1..rows} ]

\* cv2.cvtColor(image, COLOR_BGR2GRAY) at one pixel
Gray(image, x, y) ==
    IF \E d \in image.discs : (d.x - x) * (d.x - x) + (d.y - y) * (d.y - y) <= image.r * image.r
    THEN 0 ELSE 255

\* cv2.threshold(gray, threshold, 255, THRESH_BINARY_INV) at one pixel
binary_img(image, threshold, x, y) == IF Gray(image, x, y) > threshold THEN 0 ELSE 255

\* image_to_binary: the six samples of the cell whose corner is (x, y)
cell_bits(image, cell_size, threshold, x, y) ==
    [k \in 1..6 |->
        LET i == k - 1
            dot_x == x + (cell_size \div 4) + ((i % 2) * (cell_size \div 2))
            dot_y == y + (cell_size \div 6) + ((i \div 2) * (cell_size \div 3))
        IN  IF binary_img(image, threshold, dot_x, dot_y) # 0 THEN Digit(1) ELSE Digit(0)]

\* image_to_binary: while x + cell_size <= img_w
RECURSIVE ScanColumns(_, _, _, _, _, _)
ScanColumns(image, cell_size, margin, threshold, x, y) ==
    IF x + cell_size <= image.w
    THEN <<cell_bits(image, cell_size, threshold, x, y)>>
         \o ScanColumns(image, cell_size, margin, threshold, x + cell_size + margin, y)
    ELSE <<>>

\* image_to_binary: while y + cell_size <= img_h
RECURSIVE ScanRows(_, _, _, _, _)
ScanRows(image, cell_size, margin, threshold, y) ==
    IF y + cell_size <= image.h
    THEN ScanColumns(image, cell_size, margin, threshold, margin, y)
         \o ScanRows(image, cell_size, margin, threshold, y + cell_size + margin)
    ELSE <<>>

\* translator.py: BrailleTranslator.image_to_binary
image_to_binary(image, cell_size, margin, threshold) ==
    ScanRows(image, cell_size, margin, threshold, margin)

ImgOff ==
    /\ img_pc = "off"
    /\ img_lines = <<>>
    /\ img = [h |-> 0, w |-> 0, r |-> 0, discs |-> {}]
    /\ img_cells = <<>>

ImgInit ==
    /\ img_pc = "new"
    /\ img_lines = <<>>
    /\ img = [h |-> 0, w |-> 0, r |-> 0, discs |-> {}]
    /\ img_cells = <<>>

TextToBrailleImage ==
    /\ img_pc = "new"
    /\ img' = text_to_braille_image(tr_text, CELL_SIZE, DOT_RADIUS, MARGIN)
    /\ img_lines' = LinesOf(tr_text)
    /\ img_pc' = "drawn"
    /\ UNCHANGED <<img_cells, exceptImg>>

ImageToBinary ==
    /\ img_pc = "drawn"
    /\ img_cells' = image_to_binary(img, CELL_SIZE, MARGIN, THRESHOLD)
    /\ img_pc' = "read"
    /\ UNCHANGED <<img_lines, img, exceptImg>>

ImgNext == TextToBrailleImage \/ ImageToBinary

(***************************************************************************)
(* BrailleTranslatorV2: text_to_braille, text_to_braille_image and         *)
(* image_to_braille.  louis.translate is the liblouis binding; louis says  *)
(* for each table whether the call returns cells, returns nothing or       *)
(* raises RuntimeError.                                                    *)
(***************************************************************************)
COLS_PER_LINE == 30

\* DEFAULT_TABLES.split(','), no table file including another
DEFAULT_TABLES == <<"ko-g2.ctb", "en-us-g2.ctb">>

LouisProfiles == [{"ko-g2.ctb", "en-us-g2.ctb"} -> {"ok", "empty", "fail"}]

\* louis.translate(table, chunk)
louis_translate(table, chunk) ==
    IF louis[table] = "fail" THEN Raised
    ELSE IF louis[table] = "empty" THEN Ok(<<>>)
    ELSE Ok(LouForwardChars(chunk))

\* translator_v2.py: text_to_braille, "for table in tables_to_try"
RECURSIVE TryTables(_, _)
TryTables(tables, chunk) ==
    IF tables = <<>> THEN <<>>
    ELSE LET result == louis_translate(Head(tables), chunk)
         IN  IF ~result.err /\ result.val # <<>> THEN result.val
             ELSE TryTables(Tail(tables), chunk)

RECURSIVE TranslateBlocks(_)
TranslateBlocks(blocks) ==
    IF blocks = <<>> THEN <<>>
    ELSE TryTables(DEFAULT_TABLES, Head(blocks).text) \o TranslateBlocks(Tail(blocks))

\* translator_v2.py: BrailleTranslatorV2.text_to_braille (fmt = "unicode")
text_to_braille_v2(text) ==
    IF text = <<>> THEN <<>> ELSE TranslateBlocks(split_text_by_language(text))

\* [braille_text[i:i + cols_per_line] for i in range(0, len(braille_text), cols_per_line)]
RECURSIVE WrapLines(_, _)
WrapLines(braille_text, cols_per_line) ==
    IF braille_text = <<>> THEN <<>>
    ELSE IF Len(braille_text) <= cols_per_line THEN <<braille_text>>
    ELSE <<SubSeq(braille_text, 1, cols_per_line)>>
         \o WrapLines(SubSeq(braille_text, cols_per_line + 1, Len(braille_text)), cols_per_line)

\* dot_map[i] = (dot_col, dot_row)
dot_map(i) == [col |-> 1 + (i \div 3), row |-> 1 + (i % 3)]

\* text_to_braille_image: the circles of the char ch at row r, column c; a
\* char outside U+2800..U+28FF is skipped; binary is f"{v:06b}"[::-1]
CirclesOfV2(ch, r, c, cell_size, margin) ==
    IF ~IsBraille(ch) THEN {}
    ELSE LET base_x == margin + c * (cell_size + margin)
             base_y == margin + r * (cell_size + margin)
             bits == Format06b(ch - BRAILLE_BASE)
             binary == [k \in 1..Len(bits) |-> bits[Len(bits) + 1 - k]]
         IN  {[x |-> base_x + ((cell_size * dot_map(i).col) \div 3),
               y |-> base_y + ((cell_size * dot_map(i).row) \div 4)] :
                  i \in {j \in 0..(Len(binary) - 1) : binary[j + 1] = Digit(1)}}

\* translator_v2.py: BrailleTranslatorV2.text_to_braille_image; dot_map has no
\* key above 5, so a cell with dot 7 or 8 raises KeyError
text_to_braille_image_v2(text, cell_size, dot_radius, margin, cols_per_line) ==
    IF text = <<>>
    THEN Ok([h |-> margin * 2, w |-> margin * 2, r |-> dot_radius, discs |-> {}])
    ELSE LET braille_text == text_to_braille_v2(text)
             lines == WrapLines(braille_text, cols_per_line)
             rows == Len(lines)
             cols == MaxLineLen(lines)
         IN  IF \E k \in 1..Len(braille_text) :
                    IsBraille(braille_text[k]) /\ braille_text[k] - BRAILLE_BASE >= 64
             THEN Raised
             ELSE Ok([h |-> rows * cell_size + margin * (rows + 1),
                      w |-> cols * cell_size + margin * (cols + 1),
                      r |-> dot_radius,
                      discs |-> UNION {UNION {CirclesOfV2(lines[r][c], r - 1, c - 1, cell_size, margin) :
                                                 c \in 1..Len(lines[r])} : r \in 1..rows}])

\* np.any(binary_img[check_y - radius : check_y + radius, check_x - radius : check_x + radius])
RoiAny(image, threshold, check_x, check_y, radius) ==
    \E px \in (check_x - radius)..(check_x + radius - 1), py \in (check_y - radius)..(check_y + radius - 1) :
        /\ 0 <= px /\ px < image.w /\ 0 <= py /\ py < image.h
        /\ binary_img(image, threshold, px, py) # 0

Max2(a, b) == IF a > b THEN a ELSE b

\* _image_to_binary_cells: the bits of the cell whose corner is (x, y); each
\* sample is put in front of the ones before it
cell_bits_v2(image, cell_size, threshold, dot_radius, x, y) ==
    [k \in 1..6 |->
        LET i == 6 - k
            dot_x == x + ((cell_size * dot_map(i).col) \div 3)
            dot_y == y + ((cell_size * dot_map(i).row) \div 4)
            radius == Max2(1, dot_radius \div 2)
        IN  IF dot_y < image.h /\ dot_x < image.w /\ RoiAny(image, threshold, dot_x, dot_y, radius)
            THEN Digit(1) ELSE Digit(0)]

RECURSIVE ScanColumnsV2(_, _, _, _, _, _, _)
ScanColumnsV2(image, cell_size, margin, threshold, dot_radius, x, y) ==
    IF x + cell_size <= image.w
    THEN <<cell_bits_v2(image, cell_size, threshold, dot_radius, x, y)>>
         \o ScanColumnsV2(image, cell_size, margin, threshold, dot_radius, x + cell_size + margin, y)
    ELSE <<>>

RECURSIVE ScanRowsV2(_, _, _, _, _, _)
ScanRowsV2(image, cell_size, margin, threshold, dot_radius, y) ==
    IF y + cell_size <= image.h
    THEN ScanColumnsV2(image, cell_size, margin, threshold, dot_radius, margin, y)
         \o ScanRowsV2(image, cell_size, margin, threshold, dot_radius, y + cell_size + margin)
    ELSE <<>>

\* translator_v2.py: BrailleTranslatorV2._image_to_binary_cells
_image_to_binary_cells(image, cell_size, margin, threshold, dot_radius) ==
    ScanRowsV2(image, cell_size, margin, threshold, dot_radius, margin)

\* translator_v2.py: BrailleTranslatorV2.image_to_braille
RECURSIVE JoinCells(_)
JoinCells(binary_cells) ==
    IF binary_cells = <<>> THEN <<>>
    ELSE (IF Head(binary_cells) # Zeros(6) THEN binary_to_unicode_v2(Head(binary_cells)).val ELSE <<>>)
         \o JoinCells(Tail(binary_cells))

image_to_braille_v2(image, cell_size, margin, threshold, dot_radius) ==
    JoinCells(_image_to_binary_cells(image, cell_size, margin, threshold, dot_radius))

\* 'a' 'b' '1' ' ' '가' '.'
V2Alphabet == {97, 98, 49, CH_SPACE, 44032, 46}

NoImage == [h |-> 0, w |-> 0, r |-> 0, discs |-> {}]

V2Off ==
    /\ v2_pc = "off"
    /\ louis = [t \in {"ko-g2.ctb", "en-us-g2.ctb"} |-> "ok"]
    /\ v2_text = <<>> /\ v2_cols = COLS_PER_LINE
    /\ v2_img = NoImage /\ v2_out = <<>>

V2Init ==
    /\ v2_pc = "new"
    /\ louis \in LouisProfiles
    /\ v2_text \in SeqsUpTo(V2Alphabet, MaxV2Text)
    /\ v2_cols \in {2, COLS_PER_LINE}
    /\ v2_img = NoImage /\ v2_out = <<>>

V2TextToBrailleImage ==
    /\ v2_pc = "new"
    /\ LET image == text_to_braille_image_v2(v2_text, CELL_SIZE, DOT_RADIUS, MARGIN, v2_cols)
       IN  /\ v2_img' = image.val
           /\ v2_pc' = IF image.err THEN "raised" ELSE "drawn"
    /\ UNCHANGED <<louis, v2_text, v2_cols, v2_out, exceptV2>>

V2ImageToBraille ==
    /\ v2_pc = "drawn"
    /\ v2_out' = image_to_braille_v2(v2_img, CELL_SIZE, MARGIN, THRESHOLD, DOT_RADIUS)
    /\ v2_pc' = "read"
    /\ UNCHANGED <<louis, v2_text, v2_cols, v2_img, exceptV2>>

V2Next == V2TextToBrailleImage \/ V2ImageToBraille

(***************************************************************************)
(* translator_v5.py: InputFormatDetector.  No file named by the input      *)
(* exists (os.path.exists is False).                                       *)
(***************************************************************************)
\* s.lower()
str_lower(s) == [i \in 1..Len(s) |-> IF 65 <= s[i] /\ s[i] <= 90 THEN s[i] + 32 ELSE s[i]]

\* s.endswith(suffix)
EndsWith(s, suffix) ==
    Len(s) >= Len(suffix) /\ SubSeq(s, Len(s) - Len(suffix) + 1, Len(s)) = suffix

\* ['.png', '.jpg', '.jpeg', '.bmp', '.tiff', '.tif']
image_extensions ==
    {<<46, 112, 110, 103>>, <<46, 106, 112, 103>>, <<46, 106, 112, 101, 103>>,
     <<46, 98, 109, 112>>, <<46, 116, 105, 102, 102>>, <<46, 116, 105, 102>>}

\* InputFormatDetector._is_image_path, run where no file is named like the input
_is_image_path(input_data) ==
    input_data # <<>> /\ \E ext \in image_extensions : EndsWith(str_lower(input_data), ext)

\* InputFormatDetector._is_braille_unicode
_is_braille_unicode(input_data) ==
    /\ \E i \in 1..Len(input_data) : ~IsSpace(input_data[i])
    /\ \A i \in 1..Len(input_data) : ~IsSpace(input_data[i]) => IsBraille(input_data[i])

\* a str of digits without its leading zeros
RECURSIVE WithoutLeadingZeros(_)
WithoutLeadingZeros(s) ==
    IF s # <<>> /\ Head(s) = CH_ZERO THEN WithoutLeadingZeros(Tail(s)) ELSE s

\* 1 <= int(dot) <= 8, for a str of digits of any length (int is unbounded)
IntFrom1To8(dot) ==
    /\ Len(WithoutLeadingZeros(dot)) = 1
    /\ 1 <= ParseInt10(WithoutLeadingZeros(dot)) /\ ParseInt10(WithoutLeadingZeros(dot)) <= 8

\* a token of _is_dots_format: '0', or pieces between hyphens that are all
\* digits with a value from 1 to 8
DotsTokenOk(token) ==
    \/ token = <<CH_ZERO>>
    \/ \A k \in 1..Len(SplitOn(token, CH_HYPHEN)) :
           LET dot == SplitOn(token, CH_HYPHEN)[k]
           IN  str_isdigit(dot) /\ IntFrom1To8(dot)

\* InputFormatDetector._is_dots_format; the pattern is ^[\d\-\s]+$
_is_dots_format(input_data) ==
    /\ input_data # <<>>
    /\ \A i \in 1..Len(input_data) :
           IsAsciiDigit(input_data[i]) \/ input_data[i] = CH_HYPHEN \/ IsSpace(input_data[i])
    /\ \A k \in 1..Len(str_split(input_data)) : DotsTokenOk(str_split(input_data)[k])

\* InputFormatDetector._is_binary_format
_is_binary_format(input_data) ==
    LET cleaned == str_clean(input_data)
    IN  /\ cleaned # <<>>
        /\ \A i \in 1..Len(cleaned) : cleaned[i] \in {Digit(0), Digit(1)}
        /\ Len(cleaned) >= 6 /\ Len(cleaned) % 6 = 0

\* InputFormatDetector.detect_input_type
detect_input_type(input_data) ==
    LET data == str_strip(input_data)
    IN  IF data = <<>> THEN "text"
        ELSE IF _is_image_path(data) THEN "image"
        ELSE IF _is_braille_unicode(data) THEN "unicode"
        ELSE IF _is_dots_format(data) THEN "dots"
        ELSE IF _is_binary_format(data) THEN "binary"
        ELSE "text"

DetOff ==
    /\ det_pc = "off" /\ det_in = <<>> /\ det_kind = "none" /\ det_data = <<>> /\ det_type = "none"

DetInit ==
    /\ det_pc = "cells"
    /\ det_in \in SeqsUpTo(SixDotCells, MaxCells)
    /\ det_kind = "none" /\ det_data = <<>> /\ det_type = "none"

\* the caller passes the cells on as they are
KeepUnicode ==
    /\ det_pc = "cells"
    /\ det_kind' = "unicode" /\ det_data' = det_in
    /\ det_pc' = "data"
    /\ UNCHANGED <<det_in, det_type, exceptDet>>

\* translator_v5.py: unicode_to_dots
ToDots ==
    /\ det_pc = "cells"
    /\ det_kind' = "dots" /\ det_data' = unicode_to_dots_v5(det_in)
    /\ det_pc' = "data"
    /\ UNCHANGED <<det_in, det_type, exceptDet>>

\* translator_v5.py: unicode_to_binary
ToBinary ==
    /\ det_pc = "cells"
    /\ det_kind' = "binary" /\ det_data' = unicode_to_binary_v5(det_in)
    /\ det_pc' = "data"
    /\ UNCHANGED <<det_in, det_type, exceptDet>>

DetectInputType ==
    /\ det_pc = "data"
    /\ det_type' = detect_input_type(det_data)
    /\ det_pc' = "detected"
    /\ UNCHANGED <<det_in, det_kind, det_data, exceptDet>>

DetNext == KeepUnicode \/ ToDots \/ ToBinary \/ DetectInputType

(***************************************************************************)
(* translator_v5.py: SuperBrailleTranslator.unified_translate and          *)
(* get_statistics.  louis.translate is the environment: a call returns the *)
(* cells of the text or raises.                                            *)
(***************************************************************************)
LanguageType == <<"korean", "english", "number", "punctuation", "mixed", "unknown">>

\* language_counts of detect_language: how many characters of the text have
\* the pattern as their first match
LanguageCount(text, lang) == Cardinality({i \in 1..Len(text) : PatternOf(text[i]) = lang})

\* detect_language returning the most frequent language also when several occur
detect_language_majority(text) ==
    LET counted == {k \in 1..4 : LanguageCount(text, LanguageType[k]) > 0}
    IN  IF counted = {} THEN "unknown"
        ELSE LanguageType[CHOOSE k \in counted :
                 \A j \in counted :
                     \/ LanguageCount(text, LanguageType[j]) < LanguageCount(text, LanguageType[k])
                     \/ (LanguageCount(text, LanguageType[j]) = LanguageCount(text, LanguageType[k]) /\ k <= j)]

\* translator_v5.py: LanguageDetector.detect_language, as the value of the member
detect_language(text) ==
    LET active_languages == {k \in 1..Len(LanguageType) : LanguageCount(text, LanguageType[k]) > 0}
    IN  IF str_strip(text) = <<>> THEN "unknown"
        ELSE IF Cardinality(active_languages) > 1 THEN "mixed"
        ELSE IF active_languages = {} THEN "unknown"
        ELSE LanguageType[CHOOSE k \in active_languages : TRUE]

\* the fields of a UnifiedTranslationResult that differ between calls
\* _create_empty_result
EmptyResult(text) ==
    [original_text |-> text, braille_unicode |-> <<>>, braille_dots |-> <<>>,
     braille_binary |-> <<>>, language_detected |-> "unknown", segments |-> <<>>,
     success |-> TRUE, has_image |-> FALSE]

\* the result of the except branch of unified_translate
FailureResult(text) ==
    [original_text |-> text, braille_unicode |-> <<>>, braille_dots |-> <<>>,
     braille_binary |-> <<>>, language_detected |-> "unknown", segments |-> <<>>,
     success |-> FALSE, has_image |-> FALSE]

\* the result of the try branch of unified_translate
SuccessResult(text, generate_image) ==
    LET braille_unicode == LouForwardChars(text)
    IN  [original_text |-> text, braille_unicode |-> braille_unicode,
         braille_dots |-> unicode_to_dots_v5(braille_unicode),
         braille_binary |-> unicode_to_binary_v5(braille_unicode),
         language_detected |-> detect_language(text),
         segments |-> segment_by_language(text),
         success |-> TRUE, has_image |-> (generate_image /\ HAS_IMAGE_SUPPORT)]

\* unified_translate appending the failure result in its except branch too
unified_translate_logs_failures(history, text, generate_image, service) ==
    IF str_strip(text) = <<>>
    THEN [result |-> EmptyResult(text), history |-> history]
    ELSE IF service = "raises"
    THEN [result |-> FailureResult(text), history |-> Append(history, FailureResult(text))]
    ELSE [result |-> SuccessResult(text, generate_image),
          history |-> Append(history, SuccessResult(text, generate_image))]

\* unified_translate: [result, history], the result returned and the history left
unified_translate(history, text, generate_image, service) ==
    IF str_strip(text) = <<>>
    THEN [result |-> EmptyResult(text), history |-> history]
    ELSE IF service = "raises"
    THEN [result |-> FailureResult(text), history |-> history]
    ELSE [result |-> SuccessResult(text, generate_image),
          history |-> Append(history, SuccessResult(text, generate_image))]

\* how often each language_detected occurs in a sequence of results: a dict
\* whose keys are the languages that occur
LanguageStats(results) ==
    [lang \in {results[i].language_detected : i \in 1..Len(results)} |->
        Cardinality({i \in 1..Len(results) : results[i].language_detected = lang})]

CountOf(results, Test(_)) == Cardinality({i \in 1..Len(results) : Test(results[i])})

IsSuccess(result) == result.success
HasImage(result) == result.has_image

\* get_statistics; the rates and the 'features' entry are left out
get_statistics(history) ==
    IF history = <<>> THEN [message |-> "no history"]
    ELSE [total_translations |-> Len(history),
          successful_translations |-> CountOf(history, IsSuccess),
          images_generated |-> CountOf(history, HasImage),
          language_distribution |-> LanguageStats(history)]

\* the texts handed to unified_translate: none, blank, Korean, English,
\* digits, Korean with English, Korean with a full stop
StatsTexts == {<<>>, <<CH_SPACE>>, <<44032>>, <<97>>, <<49>>, <<44032, 97>>, <<44032, 46>>}

StatsOff ==
    /\ st_pc = "off" /\ HAS_IMAGE_SUPPORT = FALSE
    /\ translation_history = <<>> /\ st_results = <<>> /\ st_stats = <<>>

\* the state after SuperBrailleTranslator.__init__
StatsInit ==
    /\ st_pc = "idle"
    /\ HAS_IMAGE_SUPPORT \in BOOLEAN
    /\ translation_history = <<>>
    /\ st_results = <<>>
    /\ st_stats = <<>>

UnifiedTranslate(text, generate_image, service) ==
    /\ st_pc \in {"idle", "reported"}
    /\ Len(st_results) < MaxCalls
    /\ translation_history' = unified_translate(translation_history, text, generate_image, service).history
    /\ st_results' = Append(st_results,
                            unified_translate(translation_history, text, generate_image, service).result)
    /\ st_pc' = "idle"
    /\ UNCHANGED <<HAS_IMAGE_SUPPORT, st_stats, exceptStats>>

GetStatistics ==
    /\ st_pc \in {"idle", "reported"}
    /\ st_stats' = get_statistics(translation_history)
    /\ st_pc' = "reported"
    /\ UNCHANGED <<HAS_IMAGE_SUPPORT, translation_history, st_results, exceptStats>>

StatsNext ==
    \/ \E text \in StatsTexts, generate_image \in BOOLEAN, service \in {"ok", "raises"} :
           UnifiedTranslate(text, generate_image, service)
    \/ GetStatistics

(***************************************************************************)
(* translator_v5.py: LanguageDetector.detect_language on its own.          *)
(***************************************************************************)
LangOff == ld_pc = "off" /\ ld_text = <<>> /\ ld_lang = "none"

LangInit ==
    /\ ld_pc = "text" /\ ld_lang = "none"
    /\ ld_text \in SeqsUpTo(TextAlphabet, MaxText)

DetectLanguage ==
    /\ ld_pc = "text"
    /\ ld_lang' = detect_language(ld_text)
    /\ ld_pc' = "done"
    /\ UNCHANGED <<ld_text, exceptLang>>

LangNext == DetectLanguage

(***************************************************************************)
(* text_to_braille(text, fmt) of BrailleTranslator and BrailleTranslatorV2 *)
(* and binary_to_unicode applied to the bit str it returns.                *)
(***************************************************************************)
\* translator_v2.py: unicode_to_dots; a character that is no cell is kept
RECURSIVE dots_parts_v2(_)
dots_parts_v2(s) ==
    IF s = <<>> THEN <<>>
    ELSE << (IF IsBraille(Head(s)) THEN DotToken(Head(s) - BRAILLE_BASE) ELSE <<Head(s)>>) >>
         \o dots_parts_v2(Tail(s))

unicode_to_dots_v2(s) == Join(<<CH_SPACE>>, dots_parts_v2(s))

\* translator.py: text_to_braille, "if fmt == ..." after the join
FormatV1(braille_text, fmt) ==
    IF fmt = "binary" THEN unicode_to_binary_v1(braille_text)
    ELSE IF fmt = "dots" THEN unicode_to_dots_v1(braille_text)
    ELSE braille_text

\* translator_v2.py: text_to_braille, "if fmt == ..." after the join
FormatV2(braille_text, fmt) ==
    IF fmt = "binary" THEN unicode_to_binary_v2(braille_text)
    ELSE IF fmt = "dots" THEN unicode_to_dots_v2(braille_text)
    ELSE braille_text

\* text_to_braille(text, fmt) of the two translators; neither has a raise
text_to_braille_fmt(ver, text, fmt) ==
    IF ver = "v1" THEN Ok(FormatV1(text_to_braille(text), fmt))
    ELSE IF text = <<>> THEN Ok(<<>>)
    ELSE Ok(FormatV2(text_to_braille_v2(text), fmt))

\* the fmt arguments tried: the three of Format and one that is none of them
FormatsTried == {"unicode", "dots", "binary", "hex"}

FmtOff ==
    /\ fmt_pc = "off" /\ fmt_ver = "none" /\ fmt_text = <<>> /\ fmt_req = "none"
    /\ fmt_out = Ok(<<>>) /\ fmt_back = Ok(<<>>)

\* BrailleTranslator.__init__ without grade-2 word lists; no call made yet
TrServiceOnly ==
    /\ tr_pc = "off"
    /\ lou \in LouProfiles
    /\ g2_contractions = [lang \in Langs |-> <<>>]
    /\ g2_reverse_map = [lang \in Langs |-> {}]
    /\ tr_text = <<>> /\ tr_braille = <<>> /\ tr_restored = <<>>
    /\ lou_hangs = FALSE /\ tr_log = <<>> /\ tr_failures = <<>>

FmtInit ==
    /\ fmt_pc = "new" /\ fmt_ver = "none" /\ fmt_req = "none"
    /\ fmt_text \in SeqsUpTo(TrAlphabet, MaxFmtText)
    /\ fmt_out = Ok(<<>>) /\ fmt_back = Ok(<<>>)

TextToBrailleFmt(ver, fmt) ==
    /\ fmt_pc = "new"
    /\ fmt_ver' = ver /\ fmt_req' = fmt
    /\ fmt_out' = text_to_braille_fmt(ver, fmt_text, fmt)
    /\ fmt_pc' = "encoded"
    /\ UNCHANGED <<fmt_text, fmt_back, exceptFmt>>

\* the caller turns the bit str back into cells
FmtBinaryToUnicode ==
    /\ fmt_pc = "encoded" /\ fmt_req = "binary" /\ ~fmt_out.err
    /\ fmt_back' = (IF fmt_ver = "v1" THEN binary_to_unicode_v1(fmt_out.val)
                    ELSE binary_to_unicode_v2(fmt_out.val))
    /\ fmt_pc' = "decoded"
    /\ UNCHANGED <<fmt_ver, fmt_text, fmt_req, fmt_out, exceptFmt>>

FmtNext ==
    \/ \E ver \in {"v1", "v2"}, fmt \in FormatsTried : TextToBrailleFmt(ver, fmt)
    \/ FmtBinaryToUnicode

(***************************************************************************)
(* translator.py: the public methods of one BrailleTranslator called in    *)
(* any order after __init__.  None of them assigns to self.g2_contractions *)
(* or self.g2_reverse_map, which are part of trVars.                       *)
(***************************************************************************)
CallTexts == {<<97, 98>>, <<49>>, <<98, 98, CH_NEWLINE, 44032>>}

\* translator.py: BrailleTranslator.image_to_braille
image_to_braille(image, cell_size, margin, threshold) ==
    LET binary_cells == image_to_binary(image, cell_size, margin, threshold)
    IN  Concat([k \in 1..Len(binary_cells) |-> binary_to_unicode_v1(binary_cells[k]).val])

\* translator.py: BrailleTranslator.image_to_text
image_to_text(image, cell_size, margin, threshold) ==
    braille_to_text(image_to_braille(image, cell_size, margin, threshold))

CallsOff ==
    /\ fr_pc = "off" /\ fr_calls = <<>> /\ fr_braille = <<>>
    /\ fr_img = [h |-> 0, w |-> 0, r |-> 0, discs |-> {}]
    /\ fr_cells = <<>> /\ fr_text = <<>>

\* the state after BrailleTranslator.__init__, no method called yet
TrInstance ==
    /\ tr_pc = "off"
    /\ lou \in LouProfiles
    /\ g2_contractions \in ContractionTables
    /\ g2_reverse_map = _build_g2_reverse_map(g2_contractions)
    /\ tr_text = <<>> /\ tr_braille = <<>> /\ tr_restored = <<>>
    /\ lou_hangs = FALSE /\ tr_log = <<>> /\ tr_failures = <<>>

CallsInit ==
    /\ fr_pc = "ready" /\ fr_calls = <<>> /\ fr_braille = <<>>
    /\ fr_img = [h |-> 0, w |-> 0, r |-> 0, discs |-> {}]
    /\ fr_cells = <<>> /\ fr_text = <<>>

Called(name) ==
    /\ fr_pc = "ready"
    /\ Len(fr_calls) < MaxFrameCalls
    /\ fr_calls' = Append(fr_calls, name)
    /\ fr_pc' = "ready"

CallTextToBraille(text) ==
    /\ Called("text_to_braille")
    /\ fr_braille' = text_to_braille(text)
    /\ UNCHANGED <<fr_img, fr_cells, fr_text, exceptCalls>>

\* braille_to_text keeping each restored segment in self.g2_reverse_map
CallBrailleToTextCaching ==
    /\ Called("braille_to_text")
    /\ fr_text' = braille_to_text(fr_braille)
    /\ g2_reverse_map' = [g2_reverse_map EXCEPT !["other"] =
                              DictPut(g2_reverse_map["other"], fr_braille, braille_to_text(fr_braille))]
    /\ UNCHANGED <<fr_braille, fr_img, fr_cells,
                   tr_pc, lou, g2_contractions, tr_text, tr_braille, tr_restored,
                   lou_hangs, tr_log, tr_failures,
                   codecVars, segVars, imgVars, v2Vars, detVars, statsVars, langVars, fmtVars, decVars, picVars>>

CallBrailleToText ==
    /\ Called("braille_to_text")
    /\ fr_text' = braille_to_text(fr_braille)
    /\ UNCHANGED <<fr_braille, fr_img, fr_cells, exceptCalls>>

CallTextToBrailleImage(text) ==
    /\ Called("text_to_braille_image")
    /\ fr_img' = text_to_braille_image(text, CELL_SIZE, DOT_RADIUS, MARGIN)
    /\ UNCHANGED <<fr_braille, fr_cells, fr_text, exceptCalls>>

CallImageToBinary ==
    /\ Called("image_to_binary")
    /\ fr_cells' = image_to_binary(fr_img, CELL_SIZE, MARGIN, THRESHOLD)
    /\ UNCHANGED <<fr_braille, fr_img, fr_text, exceptCalls>>

CallImageToBraille ==
    /\ Called("image_to_braille")
    /\ fr_braille' = image_to_braille(fr_img, CELL_SIZE, MARGIN, THRESHOLD)
    /\ UNCHANGED <<fr_img, fr_cells, fr_text, exceptCalls>>

CallImageToText ==
    /\ Called("image_to_text")
    /\ fr_text' = image_to_text(fr_img, CELL_SIZE, MARGIN, THRESHOLD)
    /\ UNCHANGED <<fr_braille, fr_img, fr_cells, exceptCalls>>

CallsNext ==
    \/ \E text \in CallTexts : CallTextToBraille(text)
    \/ CallBrailleToText
    \/ \E text \in CallTexts : CallTextToBrailleImage(text)
    \/ CallImageToBinary
    \/ CallImageToBraille
    \/ CallImageToText

(***************************************************************************)
(* translator.py: braille_to_text, "while cursor < len(brl_segment)" over  *)
(* one segment, iteration by iteration.  Every _run_cli call returns or    *)
(* raises.                                                                 *)
(***************************************************************************)
\* the cells of the segments tried: capital sign, number sign, the cells of
\* 'a' and 'b' (also '1' and '2'), and the cell the word 'bb' is contracted to
SegmentCells == {CAPITAL_SIGN, BRL_NUM_SIGN, Cell(1), Cell(3), Cell(63)}

\* the service profiles that differ in backward translation
BackwardProfiles ==
    {p \in LouProfiles : p.g2 = "ok" /\ p.g1 = "ok" /\ p.digits = "numsign"}

DecOff ==
    /\ dec_pc = "off" /\ dec_lang = "other" /\ dec_segment = <<>>
    /\ dec_cursors = <<>> /\ dec_buffer = <<>>

\* the state after BrailleTranslator.__init__, for the decode loop
TrDecoder ==
    /\ tr_pc = "off"
    /\ lou \in BackwardProfiles
    /\ g2_contractions \in ContractionTables
    /\ g2_reverse_map = _build_g2_reverse_map(g2_contractions)
    /\ tr_text = <<>> /\ tr_braille = <<>> /\ tr_restored = <<>>
    /\ lou_hangs = FALSE /\ tr_log = <<>> /\ tr_failures = <<>>

\* cursor = 0, buffer = ""
DecInit ==
    /\ dec_pc = "loop"
    /\ dec_lang \in Langs
    /\ dec_segment \in SeqsUpTo(SegmentCells, MaxSegment) \ {<<>>}
    /\ dec_cursors = <<0>>
    /\ dec_buffer = <<>>

\* one pass through the body of the while loop
DecodeIteration ==
    /\ dec_pc = "loop"
    /\ dec_cursors[Len(dec_cursors)] < Len(dec_segment)
    /\ Len(dec_cursors) <= MaxSegment + 1
    /\ LET st == DecodeStep(dec_lang, dec_segment, dec_cursors[Len(dec_cursors)])
       IN  /\ dec_cursors' = Append(dec_cursors, st.cur)
           /\ dec_buffer' = dec_buffer \o st.add
    /\ UNCHANGED <<dec_pc, dec_lang, dec_segment, exceptDec>>

\* the loop test fails: text += buffer
DecodeLoopExit ==
    /\ dec_pc = "loop"
    /\ dec_cursors[Len(dec_cursors)] >= Len(dec_segment)
    /\ dec_pc' = "done"
    /\ UNCHANGED <<dec_lang, dec_segment, dec_cursors, dec_buffer, exceptDec>>

DecNext == DecodeIteration \/ DecodeLoopExit

(***************************************************************************)
(* translator_v5.py: _generate_braille_image and                           *)
(* _extract_braille_from_image.  An image is [h, w, r, discs, caption]:    *)
(* the filled circles of radius r and the rows the caption may cover; the  *)
(* outlines drawn in (200, 200, 200) and (230, 230, 230) are white after   *)
(* the threshold.  The PNG file keeps every pixel.                         *)
(***************************************************************************)
text_height == 60

\* dot_positions[dot_idx]
dot_positions(cell_size, dot_idx) ==
    [x |-> IF dot_idx < 3 THEN cell_size \div 4 ELSE (3 * cell_size) \div 4,
     y |-> IF dot_idx % 3 = 0 THEN cell_size \div 6
           ELSE IF dot_idx % 3 = 1 THEN cell_size \div 3 ELSE cell_size \div 2]

\* _generate_braille_image: the filled circles of the char at row, col (from 0)
FilledDots(char, row, col, cell_size, margin) ==
    IF ~IsBraille(char) THEN {}
    ELSE LET cell_x == margin + col * (cell_size + margin)
             cell_y == margin + row * (cell_size + margin)
         IN  {[x |-> cell_x + dot_positions(cell_size, dot_idx).x,
               y |-> cell_y + dot_positions(cell_size, dot_idx).y] :
                  dot_idx \in {i \in 0..5 : BitSet(char - BRAILLE_BASE, i)}}

\* _generate_braille_image: lines
PicLines(braille_unicode, cols_per_line) ==
    IF WrapLines(braille_unicode, cols_per_line) = <<>> THEN << <<>> >>
    ELSE WrapLines(braille_unicode, cols_per_line)

\* translator_v5.py: SuperBrailleTranslator._generate_braille_image; the two
\* cv2.putText lines lie between the row img_height - text_height and the
\* second baseline text_y + 25, from x = margin on
_generate_braille_image(settings, braille_unicode, ink) ==
    LET cell_size == settings.cell_size
        margin == settings.margin
        lines == PicLines(braille_unicode, settings.cols_per_line)
        rows == Len(lines)
        cols == MaxLineLen(lines)
        img_width == cols * cell_size + margin * (cols + 1)
        img_height == rows * cell_size + margin * (rows + 1)
        text_y == img_height - text_height + 20
    IN  [h |-> img_height + text_height,
         w |-> img_width,
         r |-> settings.dot_radius,
         discs |-> UNION {UNION {FilledDots(lines[row][col], row - 1, col - 1, cell_size, margin) :
                                    col \in 1..Len(lines[row])} : row \in 1..rows},
         caption |-> [ink |-> ink, left |-> margin, top |-> text_y - 20, bottom |-> text_y + 25]]

\* cv2.threshold(gray, 128, 255, cv2.THRESH_BINARY_INV) at one pixel
binary_v5(image, x, y) ==
    IF \/ \E d \in image.discs : (d.x - x) * (d.x - x) + (d.y - y) * (d.y - y) <= image.r * image.r
       \/ /\ image.caption.ink
          /\ image.caption.left <= x
          /\ image.caption.top <= y /\ y <= image.caption.bottom
    THEN 255 ELSE 0

Min2(a, b) == IF a < b THEN a ELSE b

\* _extract_cell_value: roi of one dot; [size, lit]
Roi(image, abs_x, abs_y, radius) ==
    LET ys == Max2(0, abs_y - radius)..(Min2(image.h, abs_y + radius) - 1)
        xs == Max2(0, abs_x - radius)..(Min2(image.w, abs_x + radius) - 1)
    IN  [size |-> Cardinality(ys) * Cardinality(xs),
         lit |-> Cardinality({px \in xs \X ys : binary_v5(image, px[1], px[2]) > 0})]

\* translator_v5.py: SuperBrailleTranslator._extract_cell_value
RECURSIVE ExtractDots(_, _, _, _, _, _, _)
ExtractDots(image, x, y, cell_size, dot_idx, braille_value, valid_dots) ==
    IF dot_idx > 5 THEN (IF valid_dots >= 4 THEN braille_value ELSE -1)
    ELSE LET abs_x == x + dot_positions(cell_size, dot_idx).x
             abs_y == y + dot_positions(cell_size, dot_idx).y
             radius == Max2(3, cell_size \div 10)
             roi == Roi(image, abs_x, abs_y, radius)
         IN  IF abs_y < image.h /\ abs_x < image.w
             THEN ExtractDots(image, x, y, cell_size, dot_idx + 1,
                              IF roi.size > 0 /\ 10 * roi.lit > 3 * roi.size
                              THEN braille_value + Pow2(dot_idx) ELSE braille_value,
                              valid_dots + 1)
             ELSE ExtractDots(image, x, y, cell_size, dot_idx + 1, braille_value, valid_dots)

_extract_cell_value(image, x, y, cell_size) == ExtractDots(image, x, y, cell_size, 0, 0, 0)

\* _extract_braille_from_image: while x + cell_size <= width; every cell
\* position scanned, with the value read there
RECURSIVE ScanColumnsV5(_, _, _, _, _)
ScanColumnsV5(image, cell_size, margin, x, y) ==
    IF x + cell_size <= image.w
    THEN <<[x |-> x, y |-> y, braille_value |-> _extract_cell_value(image, x, y, cell_size)]>>
         \o ScanColumnsV5(image, cell_size, margin, x + cell_size + margin, y)
    ELSE <<>>

\* _extract_braille_from_image: while y + cell_size <= height
RECURSIVE ScanRowsV5(_, _, _, _)
ScanRowsV5(image, cell_size, margin, y) ==
    IF y + cell_size <= image.h
    THEN <<ScanColumnsV5(image, cell_size, margin, margin, y)>>
         \o ScanRowsV5(image, cell_size, margin, y + cell_size + margin)
    ELSE <<>>

\* row_chars of one scanned row
RECURSIVE RowChars(_)
RowChars(scanned) ==
    IF scanned = <<>> THEN <<>>
    ELSE (IF Head(scanned).braille_value >= 0 THEN <<BRAILLE_BASE + Head(scanned).braille_value>> ELSE <<>>)
         \o RowChars(Tail(scanned))

\* translator_v5.py: SuperBrailleTranslator._extract_braille_from_image
_extract_braille_from_image(settings, image) ==
    LET scan == ScanRowsV5(image, settings.cell_size, settings.margin, settings.margin)
    IN  [scan |-> scan, result |-> Concat([k \in 1..Len(scan) |-> RowChars(scan[k])])]

\* the cells drawn: blank, dot 1, dots 1-3-4-6, all six dots
PicCells == {Cell(0), Cell(1), Cell(45), Cell(63)}

NoPicture == [h |-> 0, w |-> 0, r |-> 0, discs |-> {},
              caption |-> [ink |-> FALSE, left |-> 0, top |-> 0, bottom |-> 0]]

PicOff ==
    /\ pic_pc = "off"
    /\ image_settings = [cell_size |-> 50, dot_radius |-> 8, margin |-> 30, cols_per_line |-> 25]
    /\ pic_braille = <<>> /\ pic_ink = FALSE /\ pic_img = NoPicture
    /\ pic_scan = <<>> /\ pic_out = <<>>

\* the state after SuperBrailleTranslator.__init__; a caller may set
\* image_settings['cols_per_line']
PicInit ==
    /\ pic_pc = "new"
    /\ image_settings \in {[cell_size |-> 50, dot_radius |-> 8, margin |-> 30, cols_per_line |-> c] :
                              c \in {2, 25}}
    /\ pic_braille \in SeqsUpTo(PicCells, MaxPicCells)
    /\ pic_ink \in BOOLEAN
    /\ pic_img = NoPicture
    /\ pic_scan = <<>> /\ pic_out = <<>>

GenerateBrailleImage ==
    /\ pic_pc = "new"
    /\ pic_img' = _generate_braille_image(image_settings, pic_braille, pic_ink)
    /\ pic_pc' = "drawn"
    /\ UNCHANGED <<image_settings, pic_braille, pic_ink, pic_scan, pic_out, exceptPic>>

ExtractBrailleFromImage ==
    /\ pic_pc = "drawn"
    /\ pic_scan' = _extract_braille_from_image(image_settings, pic_img).scan
    /\ pic_out' = _extract_braille_from_image(image_settings, pic_img).result
    /\ pic_pc' = "read"
    /\ UNCHANGED <<image_settings, pic_braille, pic_ink, pic_img, exceptPic>>

PicNext == GenerateBrailleImage \/ ExtractBrailleFromImage

(***************************************************************************)
(* Specifications: one per component, the other components idle.           *)
(***************************************************************************)
InitCodec == CodecInit /\ SegOff /\ TrOff /\ ImgOff /\ V2Off /\ DetOff /\ StatsOff /\ LangOff /\ FmtOff /\ CallsOff /\ DecOff /\ PicOff
SpecCodec == InitCodec /\ [][CodecNext]_vars

InitSeg == CodecOff /\ SegInit /\ TrOff /\ ImgOff /\ V2Off /\ DetOff /\ StatsOff /\ LangOff /\ FmtOff /\ CallsOff /\ DecOff /\ PicOff
SpecSeg == InitSeg /\ [][SegNext]_vars

InitTr == CodecOff /\ SegOff /\ TrInit /\ ImgOff /\ V2Off /\ DetOff /\ StatsOff /\ LangOff /\ FmtOff /\ CallsOff /\ DecOff /\ PicOff
SpecTr == InitTr /\ [][TrNext]_vars

InitTrLive == CodecOff /\ SegOff /\ TrInitLive /\ ImgOff /\ V2Off /\ DetOff /\ StatsOff /\ LangOff /\ FmtOff /\ CallsOff /\ DecOff /\ PicOff
SpecTrLive == InitTrLive /\ [][TrLiveNext]_vars /\ WF_tr_pc(TrProgress)

InitImg == CodecOff /\ SegOff /\ TrInit /\ ImgInit /\ V2Off /\ DetOff /\ StatsOff /\ LangOff /\ FmtOff /\ CallsOff /\ DecOff /\ PicOff
SpecImg == InitImg /\ [][ImgNext]_vars

InitV2 == CodecOff /\ SegOff /\ TrOff /\ ImgOff /\ V2Init /\ DetOff /\ StatsOff /\ LangOff /\ FmtOff /\ CallsOff /\ DecOff /\ PicOff
SpecV2 == InitV2 /\ [][V2Next]_vars

InitDet == CodecOff /\ SegOff /\ TrOff /\ ImgOff /\ V2Off /\ DetInit /\ StatsOff /\ LangOff /\ FmtOff /\ CallsOff /\ DecOff /\ PicOff
SpecDet == InitDet /\ [][DetNext]_vars

InitStats == CodecOff /\ SegOff /\ TrOff /\ ImgOff /\ V2Off /\ DetOff /\ StatsInit /\ LangOff /\ FmtOff /\ CallsOff /\ DecOff /\ PicOff
SpecStats == InitStats /\ [][StatsNext]_vars

InitLang == CodecOff /\ SegOff /\ TrOff /\ ImgOff /\ V2Off /\ DetOff /\ StatsOff /\ LangInit /\ FmtOff /\ CallsOff /\ DecOff /\ PicOff
SpecLang == InitLang /\ [][LangNext]_vars

InitFmt == CodecOff /\ SegOff /\ TrServiceOnly /\ ImgOff /\ V2Off /\ DetOff /\ StatsOff /\ LangOff /\ FmtInit /\ CallsOff /\ DecOff /\ PicOff
SpecFmt == InitFmt /\ [][FmtNext]_vars

InitCalls == CodecOff /\ SegOff /\ TrInstance /\ ImgOff /\ V2Off /\ DetOff /\ StatsOff /\ LangOff /\ FmtOff /\ CallsInit /\ DecOff /\ PicOff
SpecCalls == InitCalls /\ [][CallsNext]_vars

InitDec == CodecOff /\ SegOff /\ TrDecoder /\ ImgOff /\ V2Off /\ DetOff /\ StatsOff /\ LangOff /\ FmtOff /\ CallsOff /\ DecInit /\ PicOff
SpecDec == InitDec /\ [][DecNext]_vars

InitPic == CodecOff /\ SegOff /\ TrOff /\ ImgOff /\ V2Off /\ DetOff /\ StatsOff /\ LangOff /\ FmtOff /\ CallsOff /\ DecOff /\ PicInit
SpecPic == InitPic /\ [][PicNext]_vars

(***************************************************************************)
(* Claims about the CellCodec, checked under SpecCodec.                    *)
(***************************************************************************)
AllSixDot(s) == \A i \in 1..Len(s) : s[i] \in SixDotCells

\* C1: for every sequence x of six-dot cells, the empty one included,
\* unicode_to_binary(x) has length exactly 6 * len(x) and
\* binary_to_unicode(unicode_to_binary(x)) = x (V1 pair and V5 pair).
C1_BinaryRoundTrip ==
    (codec_kind = "binary" /\ codec_enc \in {"v1", "v5"} /\ AllSixDot(codec_in)) =>
        /\ Len(codec_txt) = 6 * Len(codec_in)
        /\ (codec_pc = "decoded" /\ codec_dec = codec_enc) => codec_out = Ok(codec_in)

C1_Witness ==
    /\ codec_pc = "decoded" /\ codec_kind = "binary"
    /\ codec_enc = "v5" /\ codec_dec = "v5"
    /\ codec_in = <<Cell(0), Cell(44)>>
    /\ Len(codec_txt) = 12
    /\ codec_out = Ok(codec_in)

\* C2: for every sequence x of six-dot cells, the empty one and those holding
\* the all-zero cell included, dots_to_unicode(unicode_to_dots(x)) = x (V5).
C2_DotsRoundTrip ==
    (codec_pc = "decoded" /\ codec_kind = "dots" /\ codec_enc = "v5" /\ AllSixDot(codec_in)) =>
        codec_out = Ok(codec_in)

C2_Witness ==
    /\ codec_pc = "decoded" /\ codec_kind = "dots" /\ codec_enc = "v5"
    /\ codec_in = <<Cell(0), Cell(49)>>
    /\ codec_out = Ok(codec_in)

\* C3: binary_to_unicode (V1, V2, V5) applied to a str of '0'/'1' whose length
\* is not a multiple of 6 raises and returns no cells.
C3_BadLengthRaises ==
    (codec_pc = "decoded" /\ codec_kind = "binary" /\ IsBitStr(codec_txt)
        /\ Len(codec_txt) % 6 # 0) =>
        (codec_out.err /\ codec_out.val = <<>>)

C3_Witness ==
    /\ codec_pc = "decoded" /\ codec_kind = "binary" /\ codec_dec = "v1"
    /\ codec_txt = <<Digit(1), Digit(0), Digit(1)>>
    /\ codec_out.err

\* A point-number token as the format defines it: '0', or dot numbers in 1..6
\* separated by single hyphens.
WellFormedToken(tok) ==
    \/ tok = <<CH_ZERO>>
    \/ LET pieces == SplitOn(tok, CH_HYPHEN)
       IN  \A i \in 1..Len(pieces) :
               /\ str_isdigit(pieces[i])
               /\ ParseInt10(pieces[i]) \in 1..6

HasMalformedToken(s) ==
    LET toks == str_split(s) IN \E i \in 1..Len(toks) : ~WellFormedToken(toks[i])

\* C4: dots_to_unicode raises, producing no cell, whenever a token holds a dot
\* number outside 1..6 or a malformed separator.
C4_MalformedDotsRaise ==
    (codec_pc = "decoded" /\ codec_kind = "dots" /\ HasMalformedToken(codec_txt)) =>
        codec_out.err

\* The token that the point-number format prescribes for the cell value v.
TokenDescribes(tok, v) ==
    IF v = 0 THEN tok = <<CH_ZERO>>
    ELSE LET pieces == SplitOn(tok, CH_HYPHEN)
         IN  /\ \A i \in 1..Len(pieces) :
                    Len(pieces[i]) = 1 /\ pieces[i][1] \in {Digit(d) : d \in 1..6}
             /\ \A i \in 1..(Len(pieces) - 1) : pieces[i][1] < pieces[i + 1][1]
             /\ {pieces[i][1] - CH_ZERO : i \in 1..Len(pieces)}
                    = {d \in 1..6 : (v \div (2 ^ (d - 1))) % 2 = 1}

RunTexts(runs) == Concat([i \in 1..Len(runs) |-> runs[i].text])

\* C6: segment_by_language (V5) and _split_by_lang (V1) are total and
\* lossless: the texts of the returned runs, concatenated in order, are the
\* input, and the empty input yields no run.
C6_SegmentersLossless ==
    (seg_pc = "done" /\ seg_fn \in {"v1", "v5"}) =>
        /\ RunTexts(seg_runs) = seg_text
        /\ seg_text = <<>> => seg_runs = <<>>

C6_Witness ==
    /\ seg_pc = "done" /\ seg_fn = "v5"
    /\ seg_text = <<44032, 97, 95, 49>>
    /\ Len(seg_runs) = 4
    /\ RunTexts(seg_runs) = seg_text

\* C7: split_text_by_language (V2) partitions its input: the returned blocks,
\* concatenated in order, are the input.
C7_V2BlocksPartition ==
    (seg_pc = "done" /\ seg_fn = "v2") => RunTexts(seg_runs) = seg_text

\* The class of a character under the fixed priority classification.
ClassOf(c) ==
    IF (44032 <= c /\ c <= 55215) \/ (12593 <= c /\ c <= 12643) THEN "korean"
    ELSE IF (65 <= c /\ c <= 90) \/ (97 <= c /\ c <= 122) THEN "english"
    ELSE IF 48 <= c /\ c <= 57 THEN "number"
    ELSE IF c \in PunctuationChars THEN "punctuation"
    ELSE "unknown"

\* C8: segment_by_language returns maximal runs: every run is non-empty, all
\* characters of a run have the run's class, two adjacent runs have different
\* classes, and a one-character input is a single run.
C8_MaximalRuns ==
    (seg_pc = "done" /\ seg_fn = "v5") =>
        /\ \A i \in 1..Len(seg_runs) :
               /\ seg_runs[i].text # <<>>
               /\ \A j \in 1..Len(seg_runs[i].text) : ClassOf(seg_runs[i].text[j]) = seg_runs[i].lang
        /\ \A i \in 1..(Len(seg_runs) - 1) : seg_runs[i].lang # seg_runs[i + 1].lang
        /\ Len(seg_text) = 1 => Len(seg_runs) = 1

C8_Witness ==
    /\ seg_pc = "done" /\ seg_fn = "v5"
    /\ seg_text = <<97, 65, CH_SPACE, 49>>
    /\ seg_runs = <<[lang |-> "english", text |-> <<97, 65>>],
                    [lang |-> "unknown", text |-> <<CH_SPACE>>],
                    [lang |-> "number", text |-> <<49>>]>>

(***************************************************************************)
(* Claims about BrailleTranslator (V1), checked under SpecTr.              *)
(***************************************************************************)
\* The Translation Service never fails on the text and is lossless on it:
\* back-translating what it produced for a run, under the same table, returns
\* the run.
ServiceLosslessOn(text) ==
    /\ lou.g2 = "ok" /\ lou.g1 = "ok" /\ lou.back = "ok" /\ lou.missing = "none"
    /\ \A i \in 1..Len(RunsOfText(text)) :
           LET run == RunsOfText(text)[i]
               sent == _apply_special_modes(run.lang, run.text)
               table == LANG_TABLE(run.lang, "g2")
               cells == LouForward(table, sent)
           IN  /\ ~cells.err /\ cells.val # <<>>
               /\ LouBackward(table, cells.val).val \in {sent, run.text}

\* C5: for every text on which the Translation Service never fails and is
\* lossless, braille_to_text(text_to_braille(t)) is t up to surrounding
\* whitespace.
C5_PipelineRoundTrip ==
    (tr_pc = "decoded" /\ ServiceLosslessOn(tr_text)) =>
        str_strip(tr_restored) = str_strip(tr_text)

(***************************************************************************)
(* Claims about the V1 image operations, checked under SpecImg.            *)
(***************************************************************************)
\* the 6-bit group of a laid-out char: what unicode_to_binary gives for it
SixBitGroup(ch) == unicode_to_binary_v1(<<ch>>)

RECURSIVE RenderedGroups(_)
RenderedGroups(lines) ==
    IF lines = <<>> THEN <<>>
    ELSE [c \in 1..Len(Head(lines)) |-> SixBitGroup(Head(lines)[c])] \o RenderedGroups(Tail(lines))

\* C10: with cell_size 40, margin 20, dot radius 6 and threshold 128,
\* image_to_binary returns, in reading order, exactly the 6-bit groups of the
\* chars that text_to_braille_image laid out: nothing added, dropped or
\* altered, also when the lines have different lengths.
C10_ImageRoundTrip ==
    img_pc = "read" => img_cells = RenderedGroups(img_lines)

(***************************************************************************)
(* Claims about BrailleTranslatorV2's image operations, under SpecV2.      *)
(***************************************************************************)
\* C11: for every text t, image_to_braille(text_to_braille_image(t)) with the
\* default cell size, margin, dot radius and threshold is text_to_braille(t):
\* every cell, blank cells between words included, comes back in order.
C11_V2ImageRoundTrip ==
    v2_pc = "read" => v2_out = text_to_braille_v2(v2_text)

\* the segments braille_to_text decodes: every line of every paragraph, split
\* at the language-switch markers
RECURSIVE SegmentsOfLines(_)
SegmentsOfLines(lines) ==
    IF lines = <<>> THEN <<>>
    ELSE _split_by_lang_braille(Head(lines)) \o SegmentsOfLines(Tail(lines))

RECURSIVE SegmentsOfParagraphs(_)
SegmentsOfParagraphs(paragraphs) ==
    IF paragraphs = <<>> THEN <<>>
    ELSE SegmentsOfLines(SplitOn(Head(paragraphs), BRL_NEWLINE))
         \o SegmentsOfParagraphs(Tail(paragraphs))

SegmentsOf(braille) == SegmentsOfParagraphs(SplitOn(str_strip(braille), BRL_PARAGRAPH))

\* the ends e for which the piece from the cursor to e is a key of the map
KeyEnds(reverse_map, brl_segment, cursor) ==
    {end \in (cursor + 1)..Len(brl_segment) :
        DictHas(reverse_map, SubSeq(brl_segment, cursor + 1, end))}

MaxOf(S) == CHOOSE m \in S : \A x \in S : x <= m

\* C12: at a cursor that the capital and number steps do not take, when keys
\* of the language's reverse map are prefixes of the rest of the segment, the
\* longest key is chosen: its word is appended and the cursor moves past all
\* of its cells.
C12_LongestMatch ==
    tr_pc \in {"encoded", "decoded"} =>
        \A i \in 1..Len(SegmentsOf(tr_braille)) :
            LET seg == SegmentsOf(tr_braille)[i]
                reverse_map == g2_reverse_map[seg.lang]
            IN  \A cursor \in 0..(Len(seg.text) - 1) :
                    LET st == DecodeStep(seg.lang, seg.text, cursor)
                        ends == KeyEnds(reverse_map, seg.text, cursor)
                    IN  (st.step \notin {"capital", "number"} /\ ends # {}) =>
                            /\ st.step = "contraction"
                            /\ st.cur = MaxOf(ends)
                            /\ st.add = DictGet(reverse_map, SubSeq(seg.text, cursor + 1, MaxOf(ends)))

\* "ab" and "aba" are known, the segment is the two cells of "aba", both keys
\* start at the cursor, and braille_to_text has returned "aba"
C12_Witness ==
    /\ tr_pc = "decoded"
    /\ tr_text = <<97, 98, 97>>
    /\ Len(SegmentsOf(tr_braille)) = 1
    /\ Cardinality(KeyEnds(g2_reverse_map["en"], SegmentsOf(tr_braille)[1].text, 0)) = 2
    /\ tr_restored = <<97, 98, 97>>

\* the positions of s that hold a char satisfying the test
Positions(s, Test(_)) == {k \in 1..Len(s) : Test(s[k])}

IsNumSign(c) == c = BRL_NUM_SIGN

\* the positions where the capital-word marker (two capital signs) starts
CapitalWordStarts(s) ==
    {k \in 1..(Len(s) - 1) :
        /\ s[k] = CAPITAL_SIGN /\ s[k + 1] = CAPITAL_SIGN
        /\ (k = 1 \/ s[k - 1] # CAPITAL_SIGN)}

\* C13: for "ABC 123", with a service that translates and puts one number sign
\* before a digit run, text_to_braille gives exactly one capital-word marker,
\* exactly one number sign and exactly one language-switch marker, in that
\* order from left to right.
C13_MarkersOfABC123 ==
    (/\ tr_pc \in {"encoded", "decoded"}
     /\ tr_text = <<65, 66, 67, CH_SPACE, 49, 50, 51>>
     /\ lou.g2 = "ok" /\ lou.digits = "numsign") =>
        LET caps == CapitalWordStarts(tr_braille)
            nums == Positions(tr_braille, IsNumSign)
            switches == Positions(tr_braille, IsSwitchMarker)
        IN  /\ Cardinality(caps) = 1 /\ Cardinality(nums) = 1 /\ Cardinality(switches) = 1
            /\ \A c \in caps, n \in nums, w \in switches : c < n /\ n < w

\* the in-band markers text_to_braille inserts and braille_to_text splits on
Markers == {BRL_SWITCH("ko"), BRL_SWITCH("en"), BRL_SWITCH("other"), BRL_NEWLINE, BRL_PARAGRAPH}

\* the cells the Translation Service produced for the runs of the text
RECURSIVE ContentCells(_)
ContentCells(runs) ==
    IF runs = <<>> THEN {}
    ELSE {RunTranslation(Head(runs).lang, Head(runs).text).brl[k] :
              k \in 1..Len(RunTranslation(Head(runs).lang, Head(runs).text).brl)}
         \cup ContentCells(Tail(runs))

\* C14: no marker is a value that content translation produces, so
\* braille_to_text splits the braille into as many paragraphs as text_to_braille
\* joined, and each of them into as many lines.
C14_MarkersNotContent ==
    tr_pc \in {"encoded", "decoded"} =>
        /\ ContentCells(RunsOfText(tr_text)) \cap Markers = {}
        /\ LET paragraphs == SplitParagraphs(str_strip(tr_text))
               decoded == SplitOn(str_strip(tr_braille), BRL_PARAGRAPH)
           IN  /\ Len(decoded) = Len(paragraphs)
               /\ \A p \in 1..Len(paragraphs) :
                      Len(str_splitlines(paragraphs[p])) <= 1
                          => Len(SplitOn(decoded[p], BRL_NEWLINE)) = 1

\* what the lou_translate call with the grade-2 table of the run gave
Grade2Of(r) == _run_cli(LANG_TABLE(r.lang, "g2"), _apply_special_modes(r.lang, r.text), "forward")

Grade1Of(r) == _run_cli(LANG_TABLE(r.lang, "g1"), _apply_special_modes(r.lang, r.text), "forward")

\* grade 2 raised, or returned nothing, or returned fewer cells than half the
\* length of the processed fragment
Implausible(r) ==
    \/ Grade2Of(r).err
    \/ Grade2Of(r).val = <<>>
    \/ 2 * Len(Grade2Of(r).val) + 1 < Len(_apply_special_modes(r.lang, r.text))

TableLang(lang) == IF lang = "ko" THEN "ko" ELSE "en"

C16_FailureRecorded ==
    tr_pc \in {"encoded", "decoded"} =>
        \A i \in 1..Len(tr_log) :
            (Implausible(tr_log[i]) /\ Grade1Of(tr_log[i]).err) =>
                /\ tr_log[i].brl = <<>>
                /\ \E k \in 1..Len(tr_failures) : tr_failures[k] = i

RECURSIVE PiecesOf(_)
PiecesOf(log) ==
    IF log = <<>> THEN <<>>
    ELSE <<BRL_SWITCH(Head(log).lang)>> \o Head(log).brl \o PiecesOf(Tail(log))

\* s without the line and paragraph markers
RECURSIVE WithoutBreaks(_)
WithoutBreaks(s) ==
    IF s = <<>> THEN <<>>
    ELSE (IF Head(s) \in {BRL_NEWLINE, BRL_PARAGRAPH} THEN <<>> ELSE <<Head(s)>>)
         \o WithoutBreaks(Tail(s))

C18_NoHang == (tr_pc = "new") ~> (tr_pc = "encoded")

(***************************************************************************)
(* Claims about InputFormatDetector, checked under SpecDet.                *)
(***************************************************************************)
\* C20: for every non-empty sequence x of six-dot cells, detect_input_type
\* returns 'unicode' for x, 'dots' for unicode_to_dots(x) and 'binary' for
\* unicode_to_binary(x).
C20_DetectsCodecOutput ==
    (det_pc = "detected" /\ det_in # <<>>) => det_type = det_kind

(***************************************************************************)
(* Claims about SuperBrailleTranslator's statistics, checked under         *)
(* SpecStats.                                                              *)
(***************************************************************************)
\* C19: after any sequence of unified_translate calls on one instance, the
\* dict get_statistics returns has total_translations equal to the number of
\* calls made (0 for a fresh instance), successful_translations equal to the
\* number of calls that returned success, and language_distribution counting
\* each call under the language its result names.
C19_StatisticsCountCalls ==
    st_pc = "reported" =>
        /\ {"total_translations", "successful_translations", "language_distribution"}
               \subseteq DOMAIN st_stats
        /\ st_stats.total_translations = Len(st_results)
        /\ st_stats.successful_translations = CountOf(st_results, IsSuccess)
        /\ st_stats.language_distribution = LanguageStats(st_results)

(***************************************************************************)
(* Claims about LanguageDetector.detect_language, checked under SpecLang.  *)
(***************************************************************************)
\* the classes Korean, English, Number, Punctuation that have a character in
\* the text
ClassesIn(text) ==
    {c \in {"korean", "english", "number", "punctuation"} :
        \E i \in 1..Len(text) :
            \/ c = "korean" /\ _is_korean(text[i])
            \/ c = "english" /\ _is_english(text[i])
            \/ c = "number" /\ _is_number(text[i])
            \/ c = "punctuation" /\ _is_punctuation(text[i])}

IsClassified(c) == _is_korean(c) \/ _is_english(c) \/ _is_number(c) \/ _is_punctuation(c)

\* the text without its whitespace and its unclassified characters
ClassifiedOnly(text) == SelectSeq(text, IsClassified)

RECURSIVE LinesOfParagraphs(_)
LinesOfParagraphs(paragraphs) ==
    IF paragraphs = <<>> THEN <<>>
    ELSE str_splitlines(Head(paragraphs)) \o LinesOfParagraphs(Tail(paragraphs))

TextLines(text) == LinesOfParagraphs(SplitParagraphs(str_strip(text)))

\* every run of the line has cells, none of them a language-switch marker
RunsAllTranslated(runs) ==
    \A k \in 1..Len(runs) :
        LET brl == RunTranslation(runs[k].lang, runs[k].text).brl
        IN  brl # <<>> /\ \A j \in 1..Len(brl) : ~IsSwitchMarker(brl[j])

\* one (language, cells) pair per run, in the order of the runs
RunSegments(runs) ==
    [k \in 1..Len(runs) |->
        [lang |-> runs[k].lang, text |-> RunTranslation(runs[k].lang, runs[k].text).brl]]

\* C22: for every line of the text whose runs all have a non-empty translation
\* without language-switch marker, _split_by_lang_braille applied to what the
\* encoder wrote for the line returns one segment per run, in order, with the
\* run's language and the run's cells; no marker is a character of a segment.
C22_RunsRecovered ==
    tr_pc \in {"encoded", "decoded"} =>
        \A n \in 1..Len(TextLines(tr_text)) :
            LET runs == _split_by_lang(TextLines(tr_text)[n])
                written == IF Len(TextLines(tr_text)) = 1 THEN tr_braille ELSE TranslateRuns(runs)
                segments == _split_by_lang_braille(written)
            IN  RunsAllTranslated(runs) =>
                    /\ segments = RunSegments(runs)
                    /\ \A k \in 1..Len(segments) : \A j \in 1..Len(segments[k].text) :
                           ~IsSwitchMarker(segments[k].text[j])

C22_Witness ==
    /\ tr_pc = "encoded"
    /\ tr_text = <<97, 44032>>
    /\ Len(_split_by_lang(tr_text)) = 2
    /\ RunsAllTranslated(_split_by_lang(tr_text))
    /\ _split_by_lang_braille(tr_braille) =
           <<[lang |-> "en", text |-> <<Cell(1)>>], [lang |-> "ko", text |-> <<Cell(43)>>]>>

\* the text of one cell as the Translation Service gives it: the grade-2 table
\* of the language, the grade-1 table when grade 2 fails, nothing when both fail
ServiceTextOfCell(lang, cell) ==
    LET g2 == _run_cli(LANG_TABLE(lang, "g2"), <<cell>>, "backward")
        g1 == _run_cli(LANG_TABLE(lang, "g1"), <<cell>>, "backward")
    IN  IF ~g2.err THEN g2.val ELSE IF ~g1.err THEN g1.val ELSE <<>>

\* C23: in braille_to_text, a cell at the cursor that starts no capital or
\* number mode and matches no contraction is handed to the Translation Service
\* with the grade-2 table of the segment's language, and with the grade-1 table
\* if grade 2 fails; the service's text is appended and the cursor advances by
\* one cell.
C23_SingleCellThroughService ==
    tr_pc = "decoded" =>
        \A i \in 1..Len(SegmentsOf(tr_braille)) :
            LET seg == SegmentsOf(tr_braille)[i]
            IN  \A cursor \in 0..(Len(seg.text) - 1) :
                    LET st == DecodeStep(seg.lang, seg.text, cursor)
                    IN  st.step = "cell" =>
                            /\ st.add = ServiceTextOfCell(seg.lang, seg.text[cursor + 1])
                            /\ st.cur = cursor + 1

\* the cell that BRL_NUM_MAP assigns to a digit
NumMapCell(d) == CHOOSE c \in SixDotCells : InNumMap(c) /\ BRL_NUM_MAP(c) = d

NumMapCells(digits) == [k \in 1..Len(digits) |-> NumMapCell(digits[k])]

\* the runs of the text that are digit runs
DigitRuns(log) == {k \in 1..Len(log) : str_isdigit(log[k].text)}

\* the encoder's half of C24: a digit run is written as the number sign and the
\* cells of BRL_NUM_MAP
DigitRunsByMap ==
    \A k \in DigitRuns(tr_log) :
        tr_log[k].brl = <<BRL_NUM_SIGN>> \o NumMapCells(tr_log[k].text)

\* the decoder's half of C24: the number sign and the cells of BRL_NUM_MAP are
\* read back as the digits
DigitCellsRestored ==
    \A k \in DigitRuns(tr_log) :
        DecodeSegment(tr_log[k].lang, <<BRL_NUM_SIGN>> \o NumMapCells(tr_log[k].text), 0, <<>>)
            = tr_log[k].text

\* C24: for every digit run the encoder emits the number sign followed by the
\* cells that BRL_NUM_MAP assigns to its digits, whatever the Translation
\* Service returns, and braille_to_text decodes the number sign followed by
\* those cells to exactly the digits.
C24_DigitsWithoutService ==
    tr_pc \in {"encoded", "decoded"} => (DigitRunsByMap /\ DigitCellsRestored)

(***************************************************************************)
(* Claims about the fmt argument of text_to_braille, checked under SpecFmt.*)
(***************************************************************************)
\* C25: for every text t, binary_to_unicode(text_to_braille(t, fmt='binary'))
\* equals text_to_braille(t, fmt='unicode') (BrailleTranslator).
C25_BinaryCarriesUnicode ==
    (fmt_pc = "decoded" /\ fmt_ver = "v1") => fmt_back = Ok(text_to_braille(fmt_text))

\* C26: text_to_braille called with a fmt that is none of 'unicode', 'dots',
\* 'binary' fails and returns no braille output.
C26_UnknownFormatRaises ==
    (fmt_pc \in {"encoded", "decoded"} /\ fmt_req \notin {"unicode", "dots", "binary"}) =>
        (fmt_out.err /\ fmt_out.val = <<>>)

(***************************************************************************)
(* Claims about the attributes of one BrailleTranslator, checked under     *)
(* SpecCalls.                                                              *)
(***************************************************************************)
\* C27: after __init__ has returned, no call of text_to_braille,
\* braille_to_text, text_to_braille_image, image_to_binary, image_to_braille
\* or image_to_text changes g2_reverse_map or g2_contractions.
C27_MapsWrittenOnce ==
    [][g2_reverse_map' = g2_reverse_map /\ g2_contractions' = g2_contractions]_vars

C27_Witness ==
    /\ fr_calls = <<"text_to_braille", "braille_to_text", "image_to_text">>
    /\ g2_reverse_map["en"] # {}
    /\ fr_braille # <<>>

(***************************************************************************)
(* Claims about the decode loop of braille_to_text, checked under SpecDec. *)
(***************************************************************************)
\* C28: on every iteration over a segment the cursor strictly increases and
\* never exceeds the length of the segment, so a segment of n cells is decoded
\* in at most n iterations, after which the loop is left with the buffer
\* DecodeSegment computes.
C28_DecodeLoopProgress ==
    dec_pc \in {"loop", "done"} =>
        /\ \A k \in 1..(Len(dec_cursors) - 1) : dec_cursors[k] < dec_cursors[k + 1]
        /\ \A k \in 1..Len(dec_cursors) : dec_cursors[k] <= Len(dec_segment)
        /\ Len(dec_cursors) - 1 <= Len(dec_segment)
        /\ dec_pc = "done" =>
               /\ dec_cursors[Len(dec_cursors)] = Len(dec_segment)
               /\ dec_buffer = DecodeSegment(dec_lang, dec_segment, 0, <<>>)

\* a segment decoded in three iterations: a digit run, a contraction, one cell
C28_Witness ==
    /\ dec_pc = "done"
    /\ dec_segment = <<BRL_NUM_SIGN, Cell(1), Cell(63), Cell(1)>>
    /\ dec_cursors = <<0, 2, 3, 4>>

(***************************************************************************)
(* Further claims about SuperBrailleTranslator's history, checked under    *)
(* SpecStats.                                                              *)
(***************************************************************************)
\* a result of a call that translated a non-blank text
TranslatedNonBlank(result) == result.success /\ str_strip(result.original_text) # <<>>

\* C29: every entry of translation_history has success = True: the history
\* holds, in call order, exactly the results of the calls that translated a
\* non-blank text, nothing for a blank text or a translation that raised, and
\* the totals of get_statistics have successful_translations equal to
\* total_translations.
C29_HistoryHoldsSuccesses ==
    st_pc \in {"idle", "reported"} =>
        /\ \A i \in 1..Len(translation_history) : translation_history[i].success
        /\ translation_history = SelectSeq(st_results, TranslatedNonBlank)
        /\ (st_pc = "reported" /\ "total_translations" \in DOMAIN st_stats) =>
               st_stats.successful_translations = st_stats.total_translations

\* three calls, one blank, one that raised and one that succeeded, then the
\* statistics
C29_Witness ==
    /\ st_pc = "reported"
    /\ Len(st_results) = 3
    /\ st_results[1].original_text = <<CH_SPACE>>
    /\ ~st_results[2].success
    /\ st_results[3].success /\ st_results[3].original_text = <<44032, 97>>
    /\ Len(translation_history) = 1
    /\ st_stats.total_translations = 1 /\ st_stats.successful_translations = 1

(***************************************************************************)
(* Claims about SuperBrailleTranslator's images, checked under SpecPic.    *)
(***************************************************************************)
\* the rows R and columns C of the layout, and the height of the cell grid
PicRows == Len(PicLines(pic_braille, image_settings.cols_per_line))
PicCols == MaxLineLen(PicLines(pic_braille, image_settings.cols_per_line))
GridHeight == PicRows * image_settings.cell_size + image_settings.margin * (PicRows + 1)

\* C30: for an image _generate_braille_image produced from a braille str laid
\* out in R rows and C columns, _extract_braille_from_image scans exactly R
\* rows of C cell positions and returns R * C cells, none of them read from
\* outside the cell grid, in particular none from the caption strip below it.
C30_ScansTheGrid ==
    pic_pc = "read" =>
        /\ Len(pic_scan) = PicRows
        /\ \A k \in 1..Len(pic_scan) : Len(pic_scan[k]) = PicCols
        /\ Len(pic_out) = PicRows * PicCols
        /\ \A k \in 1..Len(pic_scan) : \A j \in 1..Len(pic_scan[k]) :
               /\ pic_scan[k][j].y + image_settings.cell_size <= GridHeight
               /\ pic_scan[k][j].x + image_settings.cell_size <= pic_img.w

====
